---- MODULE Spec2Model ----
(***************************************************************************)
(* Chunked transfer of images and video over WebRTC data channels:         *)
(* the browser-side chunk pumps, the fixed-size JSON frame headers, the    *)
(* backend's chunk reassemblers, the image handler and the video           *)
(* recording sessions.                                                     *)
(*                                                                         *)
(* Bytes are integers 0..255.  A byte[] / ArrayBuffer / string is a        *)
(* sequence of bytes (all strings of the model are ASCII, so UTF-8         *)
(* encoding and decoding map a character to its code and back).            *)
(* A nullable reference is a sequence of length at most one: <<>> is null  *)
(* and <<v>> is a reference to v.                                          *)
(***************************************************************************)
EXTENDS Integers, Sequences, FiniteSets, TLC

VARIABLES
    asmKind,      \* unit specs: which class the reassembler under test is
    asm,          \* unit specs: the reassembler object under test
    recent,       \* unit specs: the last two AddChunk calls, oldest first
    threw,        \* unit specs: whether the last call raised an exception
    codec,        \* codec spec: a header and a payload, their frame and its decoding
    conc,         \* thread spec: the reassembler objects, the entry of the key, the threads;
                  \* handler spec: currentBlobIndex, the channel, the running handlers;
                  \* teardown spec: the recorder objects, videoRecorders, the two handlers
    srcBytes,     \* round-trip specs: the asset's bytes handed to the sender
    chunkSize,    \* round-trip specs: the sender's CHUNK_SIZE
    todo,         \* round-trip specs: what the transport has not delivered yet
    order,        \* round-trip specs: the chunk indices delivered so far, in order
    savedImages,  \* round-trip specs: the image files written so far, oldest first
    imageAssemblers,  \* HandleSignalingAsync: imageAssemblers
    videoRecorders,   \* HandleSignalingAsync: videoRecorders
    imageFile,    \* the image file the last handler call wrote, null if none
    videoFiles,   \* the video files the last handler call wrote, in order
    log,          \* the console line of the last handler call
    escaped,      \* whether an exception left the last handler call
    lastKind,     \* what was handed to the last handler call
    nsteps,       \* the number of handler calls so far
    epoch,        \* per camera: the chunks handed over since its last chunk 0
    replaced,     \* the live reassembler the last call's chunk 0 replaced, if any
    session,      \* per recording id: its last start frame and the frames since
    srcBlobs,     \* recording specs: the recorder's blobs, by blob index
    recCamera,    \* recording specs: the camera id of the recording
    phase,        \* recording specs: new, recording, stopped or closed
    done,         \* recording specs: the blob indices in the order they completed
    dataChannel,  \* sender specs: readyState, bufferedAmount and the packets sent
    imageSend,    \* sender specs: the running sendImages call
    videoSend     \* sender specs: the running handler of a recorder blob

unitVars == <<asmKind, asm, recent, threw, codec, conc>>
rtVars == <<srcBytes, chunkSize, todo, order, savedImages>>
imgVars == <<imageAssemblers>>
vidVars == <<videoRecorders>>
outVars == <<imageFile, videoFiles, log, escaped>>
envVars == <<lastKind, nsteps, epoch, replaced, session>>
vrtVars == <<srcBlobs, recCamera, phase, done>>
sndVars == <<dataChannel, imageSend, videoSend>>
vars == <<unitVars, rtVars, imgVars, vidVars, outVars, envVars, vrtVars, sndVars>>

----------------------------------------------------------------------------
(* Bounds of the model. *)

\* longest asset (image or video blob) in bytes
MaxLen == 4
\* largest chunk size the sender is run with; the code's CHUNK_SIZE is
\* 16 * 1024 (image-transfer.service.ts:148), scaled down here
MaxChunk == 3
\* largest totalChunks a reassembler under test is constructed with
MaxTotal == 3
\* largest TotalChunks of the frames handed to the receiver
MaxFrameTotal == 3
\* number of messages handed to the receiver's handlers in one run
MaxFrames == 4

\* payload byte values
Bytes == {0, 1}

----------------------------------------------------------------------------
(* Sequences of bytes. *)

NULL == <<>>
Some(v) == <<v>>

RECURSIVE SeqsUpTo(_, _)
SeqsUpTo(S, n) ==
    IF n = 0 THEN {<<>>}
    ELSE LET shorter == SeqsUpTo(S, n - 1)
         IN  shorter \cup {Append(s, x) : s \in {t \in shorter : Len(t) = n - 1}, x \in S}

Buffers == SeqsUpTo(Bytes, MaxLen)

Min(a, b) == IF a < b THEN a ELSE b

\* ArrayBuffer.slice(start, end) with 0 <= start <= end <= byteLength
Slice(bytes, start, end) == SubSeq(bytes, start + 1, end)

----------------------------------------------------------------------------
(* BlobAssembler and ImageAssembler (two classes with the same body). *)

\* new BlobAssembler(totalChunks): _chunks is an array of totalChunks nulls
BlobAssembler(totalChunks) ==
    [total |-> totalChunks,
     chunks |-> [i \in 0..(totalChunks - 1) |-> NULL],
     received |-> 0]

BlobAssembler_IsComplete(a) == a.received = a.total

\* mutant: the upper limit of the range guard is off by one
BlobAssembler_OutOfRange_OffByOne(a, index) == index < 0 \/ index > a.total

\* the guard of AddChunk: if (index < 0 || index >= _totalChunks) return;
BlobAssembler_OutOfRange(a, index) == index < 0 \/ index >= a.total

\* _chunks[index] raises IndexOutOfRangeException outside the array
BlobAssembler_AddChunk_Throws(a, index) ==
    ~BlobAssembler_OutOfRange(a, index) /\ index \notin DOMAIN a.chunks

\* mutant: the slot is written without the null check
BlobAssembler_AddChunk_Overwrite(a, index, data) ==
    IF BlobAssembler_OutOfRange(a, index) \/ BlobAssembler_AddChunk_Throws(a, index) THEN a
    ELSE [a EXCEPT !.chunks[index] = Some(data),
                   !.received = IF a.chunks[index] = NULL THEN @ + 1 ELSE @]

\* mutant: the counter is incremented outside the null check
BlobAssembler_AddChunk_Recount(a, index, data) ==
    IF BlobAssembler_OutOfRange(a, index) \/ BlobAssembler_AddChunk_Throws(a, index) THEN a
    ELSE IF a.chunks[index] = NULL
         THEN [a EXCEPT !.chunks[index] = Some(data), !.received = @ + 1]
         ELSE [a EXCEPT !.received = @ + 1]

\* the object after AddChunk(index, data); an exception leaves it as it was
BlobAssembler_AddChunk(a, index, data) ==
    IF BlobAssembler_OutOfRange(a, index) \/ BlobAssembler_AddChunk_Throws(a, index) THEN a
    ELSE IF a.chunks[index] = NULL
         THEN [a EXCEPT !.chunks[index] = Some(data), !.received = @ + 1]
         ELSE a

\* the non-null chunks copied one after the other, slot 0 first
RECURSIVE ConcatSlots(_, _)
ConcatSlots(chunks, n) ==
    IF n = 0 THEN <<>>
    ELSE ConcatSlots(chunks, n - 1)
         \o (IF chunks[n - 1] = NULL THEN <<>> ELSE chunks[n - 1][1])

\* mutant: the chunks are copied last slot first
RECURSIVE ConcatSlotsReversed(_, _)
ConcatSlotsReversed(chunks, n) ==
    IF n = 0 THEN <<>>
    ELSE (IF chunks[n - 1] = NULL THEN <<>> ELSE chunks[n - 1][1])
         \o ConcatSlotsReversed(chunks, n - 1)

BlobAssembler_GetCompleteBlob_Reversed(a) == ConcatSlotsReversed(a.chunks, a.total)

BlobAssembler_GetCompleteBlob(a) == ConcatSlots(a.chunks, a.total)

ImageAssembler(totalChunks) ==
    [total |-> totalChunks,
     chunks |-> [i \in 0..(totalChunks - 1) |-> NULL],
     received |-> 0]

\* an IsComplete that looks at the last slot alone
ImageAssembler_IsComplete_LastSlot(a) == a.total = 0 \/ a.chunks[a.total - 1] # NULL

ImageAssembler_IsComplete(a) == a.received = a.total

ImageAssembler_OutOfRange(a, index) == index < 0 \/ index >= a.total

ImageAssembler_AddChunk_Throws(a, index) ==
    ~ImageAssembler_OutOfRange(a, index) /\ index \notin DOMAIN a.chunks

ImageAssembler_AddChunk(a, index, data) ==
    IF ImageAssembler_OutOfRange(a, index) \/ ImageAssembler_AddChunk_Throws(a, index) THEN a
    ELSE IF a.chunks[index] = NULL
         THEN [a EXCEPT !.chunks[index] = Some(data), !.received = @ + 1]
         ELSE a

ImageAssembler_GetCompleteImage(a) == ConcatSlots(a.chunks, a.total)

----------------------------------------------------------------------------
(* The sender's slicing, the same in sendChunkedImage and sendVideoChunked. *)

\* Math.ceil(byteLength / CHUNK_SIZE)
TotalChunksOf(byteLength, size) == (byteLength + size - 1) \div size

\* a slicing whose chunks run one byte into the next chunk
ChunkOf_Overlap(bytes, i, size) ==
    Slice(bytes, i * size, Min(i * size + size + 1, Len(bytes)))

\* data.slice(i * CHUNK_SIZE, Math.min(i * CHUNK_SIZE + CHUNK_SIZE, byteLength))
ChunkOf(bytes, i, size) ==
    Slice(bytes, i * size, Min(i * size + size, Len(bytes)))

----------------------------------------------------------------------------
(* The frame header: JSON text, padded with zero bytes to a fixed size.    *)

ImageHeaderSize == 64
VideoHeaderSize == 256

\* decimal digits of a number n >= 0, as JSON.stringify writes it
RECURSIVE Digits(_)
Digits(n) == IF n < 10 THEN <<48 + n>> ELSE Digits(n \div 10) \o <<48 + (n % 10)>>

\* the text between the values of {"CameraId":"..","ChunkIndex":..,"TotalChunks":..}
ImgP1 == <<123, 34, 67, 97, 109, 101, 114, 97, 73, 100, 34, 58, 34>>
ImgP2 == <<34, 44, 34, 67, 104, 117, 110, 107, 73, 110, 100, 101, 120, 34, 58>>
ImgP3 == <<44, 34, 84, 111, 116, 97, 108, 67, 104, 117, 110, 107, 115, 34, 58>>
JsonClose == <<125>>
JsonNull == <<110, 117, 108, 108>>

\* JSON.stringify(header) of a ChunkHeader whose CameraId needs no escaping
StringifyChunkHeader(header) ==
    ImgP1 \o header.CameraId \o ImgP2 \o Digits(header.ChunkIndex)
          \o ImgP3 \o Digits(header.TotalChunks) \o JsonClose

\* new Uint8Array(size) with bytes copied to its start (Len(bytes) <= size)
ZeroPadded(bytes, size) == bytes \o [i \in 1..(size - Len(bytes)) |-> 0]

\* headerBytes.slice(0, size)
Truncated(bytes, size) == SubSeq(bytes, 1, Min(Len(bytes), size))

\* a TrimEnd that trims nothing
TrimEndNul_Nothing(text) == text

\* string.TrimEnd('\0')
\* a position found in the upper half of a range, else the one of the lower
OrElse(found, other) == IF found # 0 THEN found ELSE other

\* the last position in lo..hi that holds no zero byte, 0 if there is none
RECURSIVE LastNonNul(_, _, _)
LastNonNul(text, lo, hi) ==
    IF lo > hi THEN 0
    ELSE IF lo = hi THEN (IF text[lo] # 0 THEN lo ELSE 0)
    ELSE OrElse(LastNonNul(text, (lo + hi) \div 2 + 1, hi),
                LastNonNul(text, lo, (lo + hi) \div 2))

TrimEndNul(text) == SubSeq(text, 1, LastNonNul(text, 1, Len(text)))

\* whether text holds lit at position pos
HasAt(text, pos, lit) ==
    /\ pos >= 1
    /\ pos + Len(lit) - 1 <= Len(text)
    /\ SubSeq(text, pos, pos + Len(lit) - 1) = lit

\* the first position in lo..hi that holds a quote, 0 if there is none
RECURSIVE FirstQuote(_, _, _)
FirstQuote(text, lo, hi) ==
    IF lo > hi THEN 0
    ELSE IF lo = hi THEN (IF text[lo] = 34 THEN lo ELSE 0)
    ELSE OrElse(FirstQuote(text, lo, (lo + hi) \div 2),
                FirstQuote(text, (lo + hi) \div 2 + 1, hi))

\* position of the first quote at or after pos, 0 if there is none
NextQuote(text, pos) == FirstQuote(text, pos, Len(text))

\* position after the digits that start at pos
RECURSIVE DigitsEnd(_, _)
DigitsEnd(text, pos) ==
    IF pos <= Len(text) /\ text[pos] \in 48..57 THEN DigitsEnd(text, pos + 1) ELSE pos

\* the number written by the digits text[from..to]
RECURSIVE NumberAt(_, _, _)
NumberAt(text, from, to) ==
    IF to < from THEN 0 ELSE NumberAt(text, from, to - 1) * 10 + (text[to] - 48)

ParseThrow == [kind |-> "throw"]
ParseNull == [kind |-> "null"]
ParseOk(header) == [kind |-> "ok", header |-> header]

\* the steps of reading {"CameraId":"<id>","ChunkIndex":<n>,"TotalChunks":<n>}
\* from left to right; each takes the positions the step before it found
ChunkHeaderTotal(text, idFrom, idEnd, ixFrom, ixEnd, tcFrom, tcEnd) ==
    IF tcEnd > tcFrom /\ HasAt(text, tcEnd, JsonClose) /\ tcEnd = Len(text)
    THEN ParseOk([CameraId |-> SubSeq(text, idFrom, idEnd - 1),
                  ChunkIndex |-> NumberAt(text, ixFrom, ixEnd - 1),
                  TotalChunks |-> NumberAt(text, tcFrom, tcEnd - 1)])
    ELSE ParseThrow

ChunkHeaderIndex(text, idFrom, idEnd, ixFrom, ixEnd) ==
    IF ixEnd > ixFrom /\ HasAt(text, ixEnd, ImgP3)
    THEN ChunkHeaderTotal(text, idFrom, idEnd, ixFrom, ixEnd, ixEnd + Len(ImgP3),
                          DigitsEnd(text, ixEnd + Len(ImgP3)))
    ELSE ParseThrow

ChunkHeaderId(text, idFrom, idEnd) ==
    IF idEnd > 0 /\ HasAt(text, idEnd, ImgP2)
    THEN ChunkHeaderIndex(text, idFrom, idEnd, idEnd + Len(ImgP2),
                          DigitsEnd(text, idEnd + Len(ImgP2)))
    ELSE ParseThrow

\* JsonSerializer.Deserialize<ChunkHeader>(headerJson), on the texts the model
\* produces: the sender's serialization (accepted), the literal null (returns
\* null) and texts that are no JSON value (JsonException)
DeserializeChunkHeader(text) ==
    IF text = JsonNull THEN ParseNull
    ELSE IF ~HasAt(text, 1, ImgP1) THEN ParseThrow
    ELSE ChunkHeaderId(text, Len(ImgP1) + 1, NextQuote(text, Len(ImgP1) + 1))

\* ImageTransferService.createImagePacket: an overlong header is cut at 64 bytes
ImageTransferService_createImagePacket(header, chunkData) ==
    ZeroPadded(Truncated(StringifyChunkHeader(header), ImageHeaderSize), ImageHeaderSize)
        \o chunkData

\* WebRtcService.createImagePacket: headerBuffer.set(headerBytes) raises
\* RangeError when the header is longer than the 64-byte buffer
WebRtcService_createImagePacket_Throws(header) ==
    Len(StringifyChunkHeader(header)) > ImageHeaderSize

WebRtcService_createImagePacket(header, chunkData) ==
    ZeroPadded(StringifyChunkHeader(header), ImageHeaderSize) \o chunkData

----------------------------------------------------------------------------
(* ConcurrentDictionary<string, T> as a function on the keys present. *)

EmptyMap == [k \in {} |-> NULL]
HasKey(map, k) == k \in DOMAIN map
Put(map, k, v) == [x \in DOMAIN map \cup {k} |-> IF x = k THEN v ELSE map[x]]
Remove(map, k) == [x \in DOMAIN map \ {k} |-> map[x]]

----------------------------------------------------------------------------
(* SignalingHandler.ProcessImageChunk *)

\* data[..ImageHeaderSize], decoded and trimmed
ImageHeaderJson(data) == TrimEndNul(SubSeq(data, 1, ImageHeaderSize))

\* mutant: the payload is taken one byte late
ImageChunkData_OffByOne(data) == SubSeq(data, ImageHeaderSize + 2, Len(data))

\* data[ImageHeaderSize..]
ImageChunkData(data) == SubSeq(data, ImageHeaderSize + 1, Len(data))

\* what a call leaves behind: the dictionary, the file written (null if none),
\* the console line, and the exception raised inside the try block
Outcome(map, file, line, exception) ==
    [assemblers |-> map, saved |-> file, log |-> line, exception |-> exception]

\* mutant: chunk 0 reuses the reassembler the key already has
ImageAssemblerFor_NoReset(header, assemblers) ==
    IF HasKey(assemblers, header.CameraId) THEN assemblers
    ELSE Put(assemblers, header.CameraId, ImageAssembler(header.TotalChunks))

\* a frame whose TotalChunks differs from the reassembler's replaces it
ImageAssemblerFor_Resizes(header, assemblers) ==
    IF \/ header.ChunkIndex = 0
       \/ ~HasKey(assemblers, header.CameraId)
       \/ assemblers[header.CameraId].total # header.TotalChunks
    THEN Put(assemblers, header.CameraId, ImageAssembler(header.TotalChunks))
    ELSE assemblers

\* lines 235-243: GetOrAdd, then the replacement on chunk 0; the dictionary
\* afterwards, in which header.CameraId maps to the reassembler in use
ImageAssemblerFor(header, assemblers) ==
    IF header.ChunkIndex = 0 \/ ~HasKey(assemblers, header.CameraId)
    THEN Put(assemblers, header.CameraId, ImageAssembler(header.TotalChunks))
    ELSE assemblers

\* the image is saved and the dictionary is cleared
ImageSaveIfComplete_ClearsAll(key, assembler, assemblers) ==
    IF ImageAssembler_IsComplete(assembler)
    THEN Outcome(EmptyMap,
                 Some([CameraId |-> key, bytes |-> ImageAssembler_GetCompleteImage(assembler)]),
                 "saved", "none")
    ELSE Outcome(Put(assemblers, key, assembler), NULL, "chunk", "none")

\* the image is saved and the entry stays in the dictionary
ImageSaveIfComplete_KeepsEntry(key, assembler, assemblers) ==
    IF ImageAssembler_IsComplete(assembler)
    THEN Outcome(Put(assemblers, key, assembler),
                 Some([CameraId |-> key, bytes |-> ImageAssembler_GetCompleteImage(assembler)]),
                 "saved", "none")
    ELSE Outcome(Put(assemblers, key, assembler), NULL, "chunk", "none")

\* lines 247-263: save the image and remove the entry when complete
ImageSaveIfComplete(key, assembler, assemblers) ==
    IF ImageAssembler_IsComplete(assembler)
    THEN Outcome(Remove(assemblers, key),
                 Some([CameraId |-> key, bytes |-> ImageAssembler_GetCompleteImage(assembler)]),
                 "saved", "none")
    ELSE Outcome(Put(assemblers, key, assembler), NULL, "chunk", "none")

\* lines 245-263: AddChunk on the reassembler in use, then save when complete
ImageAddAndSave(header, chunkData, assemblers) ==
    ImageSaveIfComplete(
        header.CameraId,
        ImageAssembler_AddChunk(assemblers[header.CameraId], header.ChunkIndex, chunkData),
        assemblers)

\* lines 227-263: the null check and the rest of the try block
ProcessImageHeader(parsed, data, assemblers) ==
    IF parsed.kind = "throw" THEN Outcome(assemblers, NULL, "none", "JsonException")
    ELSE IF parsed.kind = "null" THEN Outcome(assemblers, NULL, "parse_failed", "none")
    ELSE ImageAddAndSave(parsed.header, ImageChunkData(data),
                         ImageAssemblerFor(parsed.header, assemblers))

\* the body of the try block
ProcessImageChunk_Try(data, assemblers) ==
    IF Len(data) < ImageHeaderSize
    THEN Outcome(assemblers, NULL, "too_small", "none")
    ELSE ProcessImageHeader(DeserializeChunkHeader(ImageHeaderJson(data)), data, assemblers)

\* mutant: no catch block
ProcessImageChunk_NoCatch(data, assemblers) == ProcessImageChunk_Try(data, assemblers)

\* catch (Exception ex) { log }
Caught(r) == IF r.exception # "none" THEN [r EXCEPT !.log = "error", !.exception = "none"] ELSE r

\* try { ... } catch (Exception ex) { ... }
ProcessImageChunk(data, assemblers) == Caught(ProcessImageChunk_Try(data, assemblers))

----------------------------------------------------------------------------
(* The video frame header (VideoChunkHeader) and its JSON text.            *)

\* the text between the values of
\* {"Action":"..","RecordingId":"..","CameraId":"..","MimeType":"..",
\*  "ChunkIndex":..,"TotalChunks":..,"BlobIndex":..}
VidP1 == <<123, 34, 65, 99, 116, 105, 111, 110, 34, 58, 34>>
VidP2 ==
    <<34, 44, 34, 82, 101, 99, 111, 114, 100, 105, 110, 103, 73, 100, 34,
    58, 34>>
VidP3 == <<34, 44, 34, 67, 97, 109, 101, 114, 97, 73, 100, 34, 58, 34>>
VidP4 == <<34, 44, 34, 77, 105, 109, 101, 84, 121, 112, 101, 34, 58, 34>>
VidP5 ==
    <<34, 44, 34, 67, 104, 117, 110, 107, 73, 110, 100, 101, 120, 34, 58>>
VidP6 ==
    <<44, 34, 84, 111, 116, 97, 108, 67, 104, 117, 110, 107, 115, 34, 58>>
VidP7 == <<44, 34, 66, 108, 111, 98, 73, 110, 100, 101, 120, 34, 58>>

\* the values of Action
ActionStart == <<115, 116, 97, 114, 116>>
ActionData == <<100, 97, 116, 97>>
ActionStop == <<115, 116, 111, 112>>

\* substrings of the mime type that select the file extension
webm == <<119, 101, 98, 109>>
mp4 == <<109, 112, 52>>
ogg == <<111, 103, 103>>

\* recording ids, camera ids and mime types of the video runs
rec_1 == <<114, 101, 99, 95, 49>>
rec_2 == <<114, 101, 99, 95, 50>>
camera_01 == <<99, 97, 109, 101, 114, 97, 95, 48, 49>>
video_webm == <<118, 105, 100, 101, 111, 47, 119, 101, 98, 109>>
video_mp4 == <<118, 105, 100, 101, 111, 47, 109, 112, 52>>

\* JSON.stringify(header) of a VideoChunkHeader whose strings need no escaping
StringifyVideoChunkHeader(header) ==
    VidP1 \o header.Action \o VidP2 \o header.RecordingId \o VidP3 \o header.CameraId
          \o VidP4 \o header.MimeType \o VidP5 \o Digits(header.ChunkIndex)
          \o VidP6 \o Digits(header.TotalChunks) \o VidP7 \o Digits(header.BlobIndex)
          \o JsonClose

\* a value that was not read
NoField == [ok |-> FALSE, next |-> 0]

\* the string that starts at position from, when the text lit follows it
StringFieldEnd(text, from, lit, quote) ==
    IF quote > 0 /\ HasAt(text, quote, lit)
    THEN [ok |-> TRUE, value |-> SubSeq(text, from, quote - 1), next |-> quote + Len(lit)]
    ELSE NoField

StringField(text, from, lit) == StringFieldEnd(text, from, lit, NextQuote(text, from))

\* the number that starts at position from, when the text lit follows it
NumberFieldEnd(text, from, lit, end) ==
    IF end > from /\ HasAt(text, end, lit)
    THEN [ok |-> TRUE, value |-> NumberAt(text, from, end - 1), next |-> end + Len(lit)]
    ELSE NoField

NumberField(text, from, lit) == NumberFieldEnd(text, from, lit, DigitsEnd(text, from))

\* the steps of reading the seven values from left to right; each takes the
\* values read before it: act, rec, cam, mime, ix, tc and blob are what was
\* read of Action, RecordingId, CameraId, MimeType, ChunkIndex, TotalChunks
\* and BlobIndex
VideoHeaderBlobIndex(text, act, rec, cam, mime, ix, tc, blob) ==
    IF blob.ok /\ blob.next = Len(text) + 1
    THEN ParseOk([Action |-> act.value, RecordingId |-> rec.value,
                  CameraId |-> cam.value, MimeType |-> mime.value,
                  ChunkIndex |-> ix.value, TotalChunks |-> tc.value,
                  BlobIndex |-> blob.value])
    ELSE ParseThrow

VideoHeaderTotalChunks(text, act, rec, cam, mime, ix, tc) ==
    IF ~tc.ok THEN ParseThrow
    ELSE VideoHeaderBlobIndex(text, act, rec, cam, mime, ix, tc,
                              NumberField(text, tc.next, JsonClose))

VideoHeaderChunkIndex(text, act, rec, cam, mime, ix) ==
    IF ~ix.ok THEN ParseThrow
    ELSE VideoHeaderTotalChunks(text, act, rec, cam, mime, ix,
                                NumberField(text, ix.next, VidP7))

VideoHeaderMimeType(text, act, rec, cam, mime) ==
    IF ~mime.ok THEN ParseThrow
    ELSE VideoHeaderChunkIndex(text, act, rec, cam, mime,
                               NumberField(text, mime.next, VidP6))

VideoHeaderCameraId(text, act, rec, cam) ==
    IF ~cam.ok THEN ParseThrow
    ELSE VideoHeaderMimeType(text, act, rec, cam, StringField(text, cam.next, VidP5))

VideoHeaderRecordingId(text, act, rec) ==
    IF ~rec.ok THEN ParseThrow
    ELSE VideoHeaderCameraId(text, act, rec, StringField(text, rec.next, VidP4))

VideoHeaderAction(text, act) ==
    IF ~act.ok THEN ParseThrow
    ELSE VideoHeaderRecordingId(text, act, StringField(text, act.next, VidP3))

\* JsonSerializer.Deserialize<VideoChunkHeader>(headerJson), on the texts the
\* model produces: the sender's serialization (accepted), the literal null
\* (returns null) and texts that are no JSON value (JsonException)
DeserializeVideoChunkHeader(text) ==
    IF text = JsonNull THEN ParseNull
    ELSE IF ~HasAt(text, 1, VidP1) THEN ParseThrow
    ELSE VideoHeaderAction(text, StringField(text, Len(VidP1) + 1, VidP2))

\* VideoRecordingService.sendSingleVideoPacket, lines 153-173: the packet; an
\* overlong header is cut at 256 bytes
VideoRecordingService_videoPacket(header, chunkData) ==
    ZeroPadded(Truncated(StringifyVideoChunkHeader(header), VideoHeaderSize), VideoHeaderSize)
        \o chunkData

\* VideoRecordingService.sendVideoSignal: the header of a start or stop
\* signal, sent without payload
VideoSignalHeader(action, recordingId, cameraId, mimeType) ==
    [Action |-> action, RecordingId |-> recordingId, CameraId |-> cameraId,
     MimeType |-> mimeType, ChunkIndex |-> 0, TotalChunks |-> 1, BlobIndex |-> 0]

VideoRecordingService_signalPacket(action, recordingId, cameraId, mimeType) ==
    VideoRecordingService_videoPacket(
        VideoSignalHeader(action, recordingId, cameraId, mimeType), <<>>)

----------------------------------------------------------------------------
(* VideoRecorder *)

\* new VideoRecorder(recordingId, cameraId, mimeType)
VideoRecorder(recordingId, cameraId, mimeType) ==
    [recordingId |-> recordingId, cameraId |-> cameraId, mimeType |-> mimeType,
     blobs |-> EmptyMap, blobAssemblers |-> EmptyMap, TotalBytes |-> 0]

\* a lookup that hands out whatever reassembler is in progress
BlobAssemblerFor_AnyInProgress(rec, blobIndex, totalChunks) ==
    IF DOMAIN rec.blobAssemblers # {}
    THEN rec.blobAssemblers[CHOOSE k \in DOMAIN rec.blobAssemblers : TRUE]
    ELSE BlobAssembler(totalChunks)

\* line 33: _blobAssemblers.GetOrAdd(blobIndex, _ => new BlobAssembler(totalChunks))
BlobAssemblerFor(rec, blobIndex, totalChunks) ==
    IF HasKey(rec.blobAssemblers, blobIndex) THEN rec.blobAssemblers[blobIndex]
    ELSE BlobAssembler(totalChunks)

\* a complete blob is copied to _blobs and its reassembler stays
VideoRecorder_StoreBlob_KeepsAssembler(rec, blobIndex, a) ==
    IF BlobAssembler_IsComplete(a)
    THEN [rec EXCEPT !.blobs = Put(@, blobIndex, BlobAssembler_GetCompleteBlob(a)),
                     !.TotalBytes = @ + Len(BlobAssembler_GetCompleteBlob(a)),
                     !.blobAssemblers = Put(@, blobIndex, a)]
    ELSE [rec EXCEPT !.blobAssemblers = Put(@, blobIndex, a)]

\* lines 38-45: a complete blob moves from _blobAssemblers to _blobs
VideoRecorder_StoreBlob(rec, blobIndex, a) ==
    IF BlobAssembler_IsComplete(a)
    THEN [rec EXCEPT !.blobs = Put(@, blobIndex, BlobAssembler_GetCompleteBlob(a)),
                     !.TotalBytes = @ + Len(BlobAssembler_GetCompleteBlob(a)),
                     !.blobAssemblers = Remove(@, blobIndex)]
    ELSE [rec EXCEPT !.blobAssemblers = Put(@, blobIndex, a)]

\* the recorder after AddChunk(blobIndex, chunkIndex, totalChunks, chunkData)
VideoRecorder_AddChunk(rec, blobIndex, chunkIndex, totalChunks, chunkData) ==
    VideoRecorder_StoreBlob(
        rec, blobIndex,
        BlobAssembler_AddChunk(BlobAssemblerFor(rec, blobIndex, totalChunks),
                               chunkIndex, chunkData))

\* string.Contains
Contains(text, lit) == \E pos \in 1..Len(text) : HasAt(text, pos, lit)

\* lines 57-63: the file extension; .webm, .mp4 and .ogg as text
Extension(mimeType) ==
    IF Contains(mimeType, webm) THEN <<46>> \o webm
    ELSE IF Contains(mimeType, mp4) THEN <<46>> \o mp4
    ELSE IF Contains(mimeType, ogg) THEN <<46>> \o ogg
    ELSE <<46>> \o webm

\* the smallest key of a non-empty SortedDictionary<int, byte[]>
FirstKey(blobs) == CHOOSE k \in DOMAIN blobs : \A j \in DOMAIN blobs : k <= j

\* lines 70-76: foreach over the SortedDictionary writes the blobs in
\* ascending key order
RECURSIVE ConcatBlobs(_)
ConcatBlobs(blobs) ==
    IF DOMAIN blobs = {} THEN <<>>
    ELSE blobs[FirstKey(blobs)] \o ConcatBlobs(Remove(blobs, FirstKey(blobs)))

\* what Finalize leaves behind: the files written, the console line, and the
\* exception it raised
Finalized(files, line, exception) == [files |-> files, log |-> line, exception |-> exception]

\* a Finalize that builds the file name before it looks at the blob count
VideoRecorder_Finalize_NameFirst(rec) ==
    IF Len(rec.cameraId) < 8
    THEN Finalized(<<>>, "none", "ArgumentOutOfRangeException")
    ELSE IF DOMAIN rec.blobs = {} THEN Finalized(<<>>, "no_data", "none")
    ELSE Finalized(<<[CameraId |-> SubSeq(rec.cameraId, 1, 8),
                      extension |-> Extension(rec.mimeType),
                      bytes |-> ConcatBlobs(rec.blobs)]>>, "saved", "none")

\* Finalize(outputDirectory), lines 48-78: nothing is written without a
\* complete blob; _cameraId[..8] raises ArgumentOutOfRangeException for a
\* camera id shorter than 8 characters, before the file is created. The
\* conversion of the written file by ffmpeg (lines 80-85) is not modelled.
VideoRecorder_Finalize(rec) ==
    IF DOMAIN rec.blobs = {} THEN Finalized(<<>>, "no_data", "none")
    ELSE IF Len(rec.cameraId) < 8
         THEN Finalized(<<>>, "none", "ArgumentOutOfRangeException")
    ELSE Finalized(<<[CameraId |-> SubSeq(rec.cameraId, 1, 8),
                      extension |-> Extension(rec.mimeType),
                      bytes |-> ConcatBlobs(rec.blobs)]>>, "saved", "none")

----------------------------------------------------------------------------
(* SignalingHandler.ProcessVideoChunk and the close handler of the video   *)
(* channel *)

\* data[..VideoHeaderSize], decoded and trimmed
VideoHeaderJson(data) == TrimEndNul(SubSeq(data, 1, VideoHeaderSize))

\* data[VideoHeaderSize..]
VideoChunkData(data) == SubSeq(data, VideoHeaderSize + 1, Len(data))

\* what a call leaves behind: the dictionary, the files written, the console
\* line, and the exception raised
VideoOutcome(map, files, line, exception) ==
    [recorders |-> map, files |-> files, log |-> line, exception |-> exception]

\* case "start" that leaves a recorder of the same id in place
VideoStart_KeepsExisting(header, recorders) ==
    IF HasKey(recorders, header.RecordingId)
    THEN VideoOutcome(recorders, <<>>, "started", "none")
    ELSE VideoOutcome(Put(recorders, header.RecordingId,
                          VideoRecorder(header.RecordingId, header.CameraId,
                                        header.MimeType)),
                      <<>>, "started", "none")

\* lines 295-299: case "start"
VideoStart(header, recorders) ==
    VideoOutcome(Put(recorders, header.RecordingId,
                     VideoRecorder(header.RecordingId, header.CameraId, header.MimeType)),
                 <<>>, "started", "none")

\* case "data" with GetOrAdd in place of TryGetValue
VideoData_CreatesSession(header, chunkData, recorders) ==
    VideoOutcome(Put(recorders, header.RecordingId,
                     VideoRecorder_AddChunk(
                         IF HasKey(recorders, header.RecordingId)
                         THEN recorders[header.RecordingId]
                         ELSE VideoRecorder(header.RecordingId, header.CameraId,
                                            header.MimeType),
                         header.BlobIndex, header.ChunkIndex, header.TotalChunks,
                         chunkData)),
                 <<>>, "chunk", "none")

\* lines 301-307: case "data"
VideoData(header, chunkData, recorders) ==
    IF HasKey(recorders, header.RecordingId)
    THEN VideoOutcome(Put(recorders, header.RecordingId,
                          VideoRecorder_AddChunk(recorders[header.RecordingId],
                                                 header.BlobIndex, header.ChunkIndex,
                                                 header.TotalChunks, chunkData)),
                      <<>>, "chunk", "none")
    ELSE VideoOutcome(recorders, <<>>, "none", "none")

\* line 312: Finalize on the recorder taken out of the dictionary
VideoStopFinalize(recorders, finalized) ==
    VideoOutcome(recorders, finalized.files, finalized.log, finalized.exception)

\* case "stop" with TryGetValue in place of TryRemove
VideoStop_KeepsSession(header, recorders) ==
    IF HasKey(recorders, header.RecordingId)
    THEN VideoStopFinalize(recorders, VideoRecorder_Finalize(recorders[header.RecordingId]))
    ELSE VideoOutcome(recorders, <<>>, "none", "none")

\* lines 309-314: case "stop"
\* the session is removed and Finalize is not called
VideoStop_NoFinalize(header, recorders) ==
    VideoOutcome(Remove(recorders, header.RecordingId), <<>>, "none", "none")

VideoStop(header, recorders) ==
    IF HasKey(recorders, header.RecordingId)
    THEN VideoStopFinalize(Remove(recorders, header.RecordingId),
                           VideoRecorder_Finalize(recorders[header.RecordingId]))
    ELSE VideoOutcome(recorders, <<>>, "none", "none")

\* lines 293-315: switch (header.Action)
VideoSwitch(header, chunkData, recorders) ==
    IF header.Action = ActionStart THEN VideoStart(header, recorders)
    ELSE IF header.Action = ActionData THEN VideoData(header, chunkData, recorders)
    ELSE IF header.Action = ActionStop THEN VideoStop(header, recorders)
    ELSE VideoOutcome(recorders, <<>>, "none", "none")

\* lines 285-315: the null check and the rest of the try block
ProcessVideoHeader(parsed, data, recorders) ==
    IF parsed.kind = "throw" THEN VideoOutcome(recorders, <<>>, "none", "JsonException")
    ELSE IF parsed.kind = "null" THEN VideoOutcome(recorders, <<>>, "parse_failed", "none")
    ELSE VideoSwitch(parsed.header, VideoChunkData(data), recorders)

\* the body of the try block
ProcessVideoChunk_Try(data, recorders) ==
    IF Len(data) < VideoHeaderSize
    THEN VideoOutcome(recorders, <<>>, "too_small", "none")
    ELSE ProcessVideoHeader(DeserializeVideoChunkHeader(VideoHeaderJson(data)), data,
                            recorders)

\* try { ... } catch (Exception ex) { ... }
ProcessVideoChunk(data, recorders) == Caught(ProcessVideoChunk_Try(data, recorders))

\* the sequences that list every element of the set S once
Orders(S) == {o \in [1..Cardinality(S) -> S] : \A i, j \in 1..Cardinality(S) :
                                                    i # j => o[i] # o[j]}

\* lines 68-72 of the close handler: Finalize on every recorder, in the
\* order keys in which the dictionary enumerates them; an exception ends
\* the loop and leaves the handler
RECURSIVE FinalizeAll(_, _, _)
FinalizeAll(recorders, keys, k) ==
    IF k > Len(keys) THEN Finalized(<<>>, "none", "none")
    ELSE IF VideoRecorder_Finalize(recorders[keys[k]]).exception # "none"
         THEN VideoRecorder_Finalize(recorders[keys[k]])
    ELSE [FinalizeAll(recorders, keys, k + 1) EXCEPT
              !.files = VideoRecorder_Finalize(recorders[keys[k]]).files \o @]

\* channel.onclose of the video channel, lines 65-74: videoRecorders.Clear()
\* runs only when no Finalize raised
VideoChannel_onclose_After(recorders, finalized) ==
    VideoOutcome(IF finalized.exception = "none" THEN EmptyMap ELSE recorders,
                 finalized.files, "closed", finalized.exception)

VideoChannel_onclose(recorders, keys) ==
    VideoChannel_onclose_After(recorders, FinalizeAll(recorders, keys, 1))

----------------------------------------------------------------------------
(* Unit specification SpecAsm: one reassembler of either class, driven by  *)
(* arbitrary AddChunk calls (any index, duplicates, any payload).          *)

AsmKinds == {"image", "blob"}

NewAsm(kind, totalChunks) ==
    IF kind = "image" THEN ImageAssembler(totalChunks) ELSE BlobAssembler(totalChunks)

AsmAddChunk(kind, a, index, data) ==
    IF kind = "image" THEN ImageAssembler_AddChunk(a, index, data)
    ELSE BlobAssembler_AddChunk(a, index, data)

AsmAddChunkThrows(kind, a, index) ==
    IF kind = "image" THEN ImageAssembler_AddChunk_Throws(a, index)
    ELSE BlobAssembler_AddChunk_Throws(a, index)

AsmIsComplete(kind, a) ==
    IF kind = "image" THEN ImageAssembler_IsComplete(a) ELSE BlobAssembler_IsComplete(a)

AsmMaterialize(kind, a) ==
    IF kind = "image" THEN ImageAssembler_GetCompleteImage(a)
    ELSE BlobAssembler_GetCompleteBlob(a)

\* payloads of the unit calls
UnitPayloads == SeqsUpTo(Bytes, 1)

\* the last two calls
Remember(window, call) ==
    IF Len(window) < 2 THEN Append(window, call) ELSE <<window[2], call>>

LastCall(window) == window[Len(window)]

AsmIdle == asmKind = "blob" /\ asm = BlobAssembler(0) /\ recent = <<>> /\ threw = FALSE
UnitIdle == AsmIdle /\ codec = NULL /\ conc = NULL
RtIdle == srcBytes = <<>> /\ chunkSize = 1 /\ todo = {} /\ order = <<>> /\ savedImages = <<>>
ImgIdle == imageAssemblers = EmptyMap
VidIdle == videoRecorders = EmptyMap
OutIdle == imageFile = NULL /\ videoFiles = <<>> /\ log = "none" /\ escaped = FALSE
VrtIdle == srcBlobs = <<>> /\ recCamera = <<>> /\ phase = "none" /\ done = <<>>
SndIdle == dataChannel = NULL /\ imageSend = NULL /\ videoSend = NULL
EnvIdle ==
    lastKind = "none" /\ nsteps = 0 /\ epoch = EmptyMap /\ replaced = NULL /\ session = EmptyMap

InitAsm ==
    /\ asmKind \in AsmKinds
    /\ \E n \in 0..MaxTotal : asm = NewAsm(asmKind, n)
    /\ recent = <<>>
    /\ threw = FALSE
    /\ codec = NULL
    /\ conc = NULL
    /\ RtIdle /\ ImgIdle /\ VidIdle /\ OutIdle /\ EnvIdle /\ VrtIdle /\ SndIdle

CallAddChunk(index, data) ==
    /\ asm' = AsmAddChunk(asmKind, asm, index, data)
    /\ threw' = AsmAddChunkThrows(asmKind, asm, index)
    /\ recent' = Remember(recent, [index |-> index, data |-> data])
    /\ UNCHANGED <<asmKind, codec, conc, rtVars, imgVars, vidVars, outVars, envVars, vrtVars, sndVars>>

NextAsm == \E index \in -1..(MaxTotal + 1), data \in UnitPayloads : CallAddChunk(index, data)

SpecAsm == InitAsm /\ [][NextAsm]_vars

(* C6: after any sequence of AddChunk calls (any index, duplicates and    *)
(* out-of-range values included) receivedCount is the number of filled     *)
(* slots, never exceeds totalChunks, and IsComplete holds exactly when     *)
(* every slot of [0, totalChunks) is filled.                               *)
FilledSlots(a) == {i \in DOMAIN a.chunks : a.chunks[i] # NULL}

C6_CountInvariant ==
    /\ asm.received = Cardinality(FilledSlots(asm))
    /\ asm.received <= asm.total
    /\ AsmIsComplete(asmKind, asm) <=> (FilledSlots(asm) = 0..(asm.total - 1))

\* a complete three-slot reassembler whose last two calls hit the same index
C6_Witness ==
    /\ asm.total = 3
    /\ AsmIsComplete(asmKind, asm)
    /\ Len(recent) = 2
    /\ recent[1].index = recent[2].index
    /\ recent[1].index \in 0..2

(* C7: an AddChunk call to the index of the call just before it leaves     *)
(* the reassembler (slots and receivedCount) as the first call left it,    *)
(* whatever payload the second call carries.                               *)
C7_IdempotentWrite ==
    [][(Len(recent) >= 1 /\ Len(recent') >= 1
          /\ LastCall(recent').index = LastCall(recent).index)
       => asm' = asm]_vars

\* the slot was written twice in a row with different payloads and holds the first
C7_Witness ==
    /\ Len(recent) = 2
    /\ recent[1].index = recent[2].index
    /\ recent[1].index \in DOMAIN asm.chunks
    /\ recent[1].data # recent[2].data
    /\ asm.chunks[recent[1].index] = Some(recent[1].data)

(* C8: AddChunk with index < 0 or index >= totalChunks changes neither     *)
(* receivedCount nor any slot and raises no exception.                     *)
C8_OutOfRangeDropped ==
    [][(Len(recent') >= 1
          /\ (LastCall(recent').index < 0 \/ LastCall(recent').index >= asm.total))
       => (asm' = asm /\ ~threw')]_vars

\* a negative index and an index equal to totalChunks were both passed to a
\* reassembler that already holds a chunk
C8_Witness ==
    /\ Len(recent) = 2
    /\ recent[1].index = -1
    /\ recent[2].index = asm.total
    /\ asm.received > 0
    /\ ~threw

----------------------------------------------------------------------------
(* Round-trip specification SpecRT: the sender's chunks of one asset,      *)
(* delivered to a reassembler of that totalChunks in any order, each once. *)

InitRT ==
    /\ asmKind \in AsmKinds
    /\ srcBytes \in Buffers
    /\ chunkSize \in 1..MaxChunk
    /\ asm = NewAsm(asmKind, TotalChunksOf(Len(srcBytes), chunkSize))
    /\ todo = 0..(TotalChunksOf(Len(srcBytes), chunkSize) - 1)
    /\ recent = <<>>
    /\ threw = FALSE
    /\ order = <<>>
    /\ savedImages = <<>>
    /\ codec = NULL /\ conc = NULL
    /\ ImgIdle /\ VidIdle /\ OutIdle /\ EnvIdle /\ VrtIdle /\ SndIdle

DeliverChunk(i) ==
    /\ i \in todo
    /\ asm' = AsmAddChunk(asmKind, asm, i, ChunkOf(srcBytes, i, chunkSize))
    /\ threw' = AsmAddChunkThrows(asmKind, asm, i)
    /\ recent' = Remember(recent, [index |-> i, data |-> ChunkOf(srcBytes, i, chunkSize)])
    /\ todo' = todo \ {i}
    /\ order' = Append(order, i)
    /\ UNCHANGED <<asmKind, codec, conc, srcBytes, chunkSize, savedImages, imgVars, vidVars,
                   outVars, envVars, vrtVars, sndVars>>

NextRT == \E i \in todo : DeliverChunk(i)

SpecRT == InitRT /\ [][NextRT]_vars

(* C1: once every chunk the sender cut from B has been delivered, in any   *)
(* order, the reassembler is complete and materializes exactly B.          *)
C1_RoundTrip ==
    todo = {} => (AsmIsComplete(asmKind, asm) /\ AsmMaterialize(asmKind, asm) = srcBytes)

\* four bytes in chunks of three (a short last chunk), chunk 0 delivered last
C1_Witness ==
    /\ todo = {}
    /\ Len(srcBytes) = 4
    /\ chunkSize = 3
    /\ Len(recent) = 2
    /\ LastCall(recent).index = 0
    /\ srcBytes = <<0, 1, 1, 0>>

----------------------------------------------------------------------------
(* Round-trip specification SpecImgRT: the frames WebRtcService cuts from  *)
(* one image, handed to ProcessImageChunk in any order, each once.         *)

cam_01 == <<99, 97, 109, 95, 48, 49>>
cam_02 == <<99, 97, 109, 95, 48, 50>>

\* WebRtcService.sendChunkedImage: the packet of chunk i of an image whose
\* headers fit
ImagePacketOf(cameraId, bytes, size, i) ==
    WebRtcService_createImagePacket(
        [CameraId |-> cameraId, ChunkIndex |-> i,
         TotalChunks |-> TotalChunksOf(Len(bytes), size)],
        ChunkOf(bytes, i, size))

\* a reassembler an unfinished earlier transfer of the same camera left behind
StaleAssemblers ==
    Put(EmptyMap, cam_01, ImageAssembler_AddChunk(ImageAssembler(3), 1, <<1>>))

InitImgRT ==
    /\ srcBytes \in Buffers
    /\ chunkSize \in 1..MaxChunk
    /\ todo = 0..(TotalChunksOf(Len(srcBytes), chunkSize) - 1)
    /\ order = <<>>
    /\ imageAssemblers \in {EmptyMap, StaleAssemblers}
    /\ savedImages = <<>>
    /\ UnitIdle /\ VidIdle /\ OutIdle /\ EnvIdle /\ VrtIdle /\ SndIdle

\* the effect of one onmessage call of the image channel
ImageMessage(data) ==
    \E r \in {ProcessImageChunk(data, imageAssemblers)} :
        /\ imageAssemblers' = r.assemblers
        /\ imageFile' = r.saved
        /\ videoFiles' = <<>>
        /\ log' = r.log
        /\ escaped' = (r.exception # "none")
        /\ UNCHANGED vidVars

DeliverImageFrame(i) ==
    /\ i \in todo
    /\ ImageMessage(ImagePacketOf(cam_01, srcBytes, chunkSize, i))
    /\ todo' = todo \ {i}
    /\ order' = Append(order, i)
    /\ savedImages' = savedImages \o imageFile'
    /\ UNCHANGED <<unitVars, srcBytes, chunkSize, envVars, vrtVars, sndVars>>

NextImgRT == \E i \in todo : DeliverImageFrame(i)

SpecImgRT == InitImgRT /\ [][NextImgRT]_vars

ImageSaved(cameraId, bytes) ==
    \E k \in 1..Len(savedImages) : savedImages[k] = [CameraId |-> cameraId, bytes |-> bytes]

(* C2 as stated: once every frame of the asset has been handed to          *)
(* ProcessImageChunk, in any order, an image with the bytes of B has been  *)
(* saved for the key.                                                      *)
C2_AnyOrder == todo = {} => ImageSaved(cam_01, srcBytes)

(* C2 amended: for a non-empty B whose chunk 0 frame is handed over first  *)
(* (the others in any order), an image with the bytes of B has been saved  *)
(* for the key once every frame has been handed over.                      *)
C2_ChunkZeroFirst ==
    (todo = {} /\ Len(srcBytes) > 0 /\ order[1] = 0) => ImageSaved(cam_01, srcBytes)

\* four chunks, chunk 0 first and the rest out of order, over a stale reassembler
C2_Witness ==
    /\ todo = {}
    /\ order = <<0, 3, 1, 2>>
    /\ srcBytes = <<0, 1, 1, 0>>
    /\ savedImages = <<[CameraId |-> cam_01, bytes |-> srcBytes]>>
    /\ imageAssemblers = EmptyMap

----------------------------------------------------------------------------
(* Specification SpecImg: ProcessImageChunk under arbitrary messages of    *)
(* the image channel: well-formed frames of camera cam_01 with any index,  *)
(* any totalChunks and two payloads, the frames of a two-chunk transfer of *)
(* camera cam_02, and malformed messages.                                  *)

ImgHeaders ==
    [CameraId : {cam_01}, ChunkIndex : 0..(MaxFrameTotal - 1), TotalChunks : 0..MaxFrameTotal]
    \cup [CameraId : {cam_02}, ChunkIndex : 0..1, TotalChunks : {2}]

ImgPayloads == {<<0>>, <<1>>}

\* a camera id that does not fit the 64-byte header
camera_front_left_01 ==
    <<99, 97, 109, 101, 114, 97, 95, 102, 114, 111, 110, 116, 95, 108, 101, 102,
      116, 95, 48, 49>>

LongIdHeader == [CameraId |-> camera_front_left_01, ChunkIndex |-> 0, TotalChunks |-> 1]

\* messages that are no frame: shorter than the header, a header of zero
\* bytes, a header cut off by the sender, the JSON literal null
MalformedImageFrames ==
    { <<>>,
      SubSeq(ImageTransferService_createImagePacket(
                 [CameraId |-> cam_01, ChunkIndex |-> 0, TotalChunks |-> 1], <<>>),
             1, ImageHeaderSize - 1),
      ZeroPadded(<<>>, ImageHeaderSize) \o <<1>>,
      ImageTransferService_createImagePacket(LongIdHeader, <<1>>),
      ZeroPadded(JsonNull, ImageHeaderSize) \o <<1>> }

\* the chunks handed over for a camera since its reassembler was created or
\* replaced: the totalChunks of the frame that created it and, per index,
\* the first payload
EpochAfter(header, payload) ==
    LET key == header.CameraId
        base == IF header.ChunkIndex = 0 \/ ~HasKey(imageAssemblers, key)
                THEN [total |-> header.TotalChunks, got |-> EmptyMap]
                ELSE epoch[key]
    IN  Put(epoch, key,
            IF HasKey(base.got, header.ChunkIndex) THEN base
            ELSE [base EXCEPT !.got = Put(base.got, header.ChunkIndex, payload)])

InitImg ==
    /\ ImgIdle /\ VidIdle /\ OutIdle /\ EnvIdle /\ UnitIdle /\ RtIdle /\ VrtIdle /\ SndIdle

ImageFrame(header, payload) ==
    /\ nsteps < MaxFrames
    /\ ImageMessage(ImageTransferService_createImagePacket(header, payload))
    /\ lastKind' = "image"
    /\ nsteps' = nsteps + 1
    /\ epoch' = EpochAfter(header, payload)
    /\ replaced' = IF header.ChunkIndex = 0 /\ HasKey(imageAssemblers, header.CameraId)
                   THEN Some([key |-> header.CameraId,
                              assembler |-> imageAssemblers[header.CameraId]])
                   ELSE NULL
    /\ UNCHANGED <<unitVars, rtVars, vrtVars, sndVars, session>>

MalformedImageFrame(data) ==
    /\ nsteps < MaxFrames
    /\ ImageMessage(data)
    /\ lastKind' = "malformed_image"
    /\ nsteps' = nsteps + 1
    /\ replaced' = NULL
    /\ UNCHANGED <<unitVars, rtVars, epoch, vrtVars, sndVars, session>>

NextImg ==
    \/ \E header \in ImgHeaders, payload \in ImgPayloads : ImageFrame(header, payload)
    \/ \E data \in MalformedImageFrames : MalformedImageFrame(data)

SpecImg == InitImg /\ [][NextImg]_vars

\* the bytes of an epoch: the payloads of the indexes below its total, in
\* ascending index order
RECURSIVE EpochBytes(_, _)
EpochBytes(e, n) ==
    IF n = 0 THEN <<>>
    ELSE EpochBytes(e, n - 1) \o (IF HasKey(e.got, n - 1) THEN e.got[n - 1] ELSE <<>>)

\* the reassembler a fresh start with the chunks of epoch e would hold
AssemblerOfEpoch(e) ==
    [total |-> e.total,
     chunks |-> [i \in 0..(e.total - 1) |-> IF HasKey(e.got, i) THEN Some(e.got[i]) ELSE NULL],
     received |-> Cardinality({i \in DOMAIN e.got : i < e.total})]

\* C5 (reset on zero): a frame with chunkIndex 0 replaces the reassembler of
\* its key by a fresh one sized to the frame's totalChunks, whatever was
\* there: every live reassembler holds exactly the chunks handed over since
\* the last chunk 0 of its key (sized by that frame), after a replacement
\* only slot 0 is filled, and an emitted image is built from the chunks
\* handed over at or after the last chunk 0 and from nothing older.
C5_ResetOnZero ==
    /\ \A key \in DOMAIN imageAssemblers :
           /\ HasKey(epoch, key)
           /\ imageAssemblers[key] = AssemblerOfEpoch(epoch[key])
    /\ replaced # NULL =>
           LET key == replaced[1].key
           IN  /\ epoch[key].got = Put(EmptyMap, 0, epoch[key].got[0])
               /\ HasKey(imageAssemblers, key) =>
                      /\ imageAssemblers[key].received = 1
                      /\ imageAssemblers[key].chunks[0] # NULL
                      /\ \A i \in 1..(imageAssemblers[key].total - 1) :
                             imageAssemblers[key].chunks[i] = NULL
    /\ imageFile # NULL =>
           LET key == imageFile[1].CameraId
           IN  /\ ~HasKey(imageAssemblers, key)
               /\ HasKey(epoch, key)
               /\ \A i \in 0..(epoch[key].total - 1) : HasKey(epoch[key].got, i)
               /\ imageFile[1].bytes = EpochBytes(epoch[key], epoch[key].total)

\* chunks 0 and 1 of 3 were held for cam_01 when a frame (chunk 0 of 2)
\* arrived: the reassembler now in use has 2 slots and holds chunk 0 only
C5_Witness ==
    /\ replaced # NULL
    /\ replaced[1].key = cam_01
    /\ replaced[1].assembler.total = 3
    /\ replaced[1].assembler.received = 2
    /\ replaced[1].assembler.chunks[0] # NULL
    /\ replaced[1].assembler.chunks[1] # NULL
    /\ HasKey(imageAssemblers, cam_01)
    /\ imageAssemblers[cam_01].total = 2
    /\ imageAssemblers[cam_01].received = 1

\* the image written after such a replacement holds the two chunks handed
\* over since, and no byte of the discarded transfer
C5_WitnessEmitted ==
    /\ imageFile # NULL
    /\ imageFile[1].CameraId = cam_01
    /\ nsteps = 4
    /\ epoch[cam_01].total = 2
    /\ Len(imageFile[1].bytes) = 2

----------------------------------------------------------------------------
(* Specification SpecVidRT: one recording of three recorder blobs. The     *)
(* start signal arrives first; the data frames of the blobs arrive in any  *)
(* order; the recording ends with the stop signal or with the close of the *)
(* video channel, at any moment.                                           *)

BlobIndexes == {0, 1, 2}

\* longest recorder blob in bytes
MaxBlobLen == 2

\* the camera ids of the recordings: six and nine characters
VideoCameraIds == {cam_01, camera_01}

\* a blob whose bytes are all different from the bytes of the other blobs
LabelledBlob(blobIndex, length) == [j \in 1..length |-> 16 * blobIndex + j]

\* VideoRecordingService.sendVideoChunked / sendSingleVideoPacket: the packet
\* of chunk i of blob blobIndex
VideoPacketOf(recordingId, cameraId, mimeType, blob, blobIndex, size, i) ==
    VideoRecordingService_videoPacket(
        [Action |-> ActionData, RecordingId |-> recordingId, CameraId |-> cameraId,
         MimeType |-> mimeType, ChunkIndex |-> i,
         TotalChunks |-> TotalChunksOf(Len(blob), size), BlobIndex |-> blobIndex],
        ChunkOf(blob, i, size))

InitVidRT ==
    /\ \E length \in [BlobIndexes -> 1..MaxBlobLen] :
           srcBlobs = [b \in BlobIndexes |-> LabelledBlob(b, length[b])]
    /\ chunkSize \in 1..MaxBlobLen
    /\ recCamera \in VideoCameraIds
    /\ todo = {<<b, i>> : b \in BlobIndexes, i \in 0..(MaxBlobLen - 1)}
              \cap {f \in BlobIndexes \X Nat :
                        f[2] < TotalChunksOf(Len(srcBlobs[f[1]]), chunkSize)}
    /\ phase = "new"
    /\ done = <<>>
    /\ srcBytes = <<>> /\ order = <<>> /\ savedImages = <<>>
    /\ UnitIdle /\ ImgIdle /\ VidIdle /\ OutIdle /\ EnvIdle /\ SndIdle

\* the effect of one onmessage call of the video channel
VideoMessage(data) ==
    \E r \in {ProcessVideoChunk(data, videoRecorders)} :
        /\ videoRecorders' = r.recorders
        /\ videoFiles' = r.files
        /\ imageFile' = NULL
        /\ log' = r.log
        /\ escaped' = (r.exception # "none")
        /\ UNCHANGED imgVars

\* the effect of the close of the video channel; keys is the order in which
\* the dictionary enumerates its recorders
VideoChannelClose(keys) ==
    \E r \in {VideoChannel_onclose(videoRecorders, keys)} :
        /\ videoRecorders' = r.recorders
        /\ videoFiles' = r.files
        /\ imageFile' = NULL
        /\ log' = r.log
        /\ escaped' = (r.exception # "none")
        /\ UNCHANGED imgVars

DeliverVideoStart ==
    /\ phase = "new"
    /\ VideoMessage(VideoRecordingService_signalPacket(ActionStart, rec_1, recCamera,
                                                       video_webm))
    /\ phase' = "recording"
    /\ UNCHANGED <<unitVars, rtVars, envVars, srcBlobs, recCamera, done, sndVars>>

DeliverVideoFrame(b, i) ==
    /\ phase = "recording"
    /\ <<b, i>> \in todo
    /\ VideoMessage(VideoPacketOf(rec_1, recCamera, video_webm, srcBlobs[b], b, chunkSize, i))
    /\ todo' = todo \ {<<b, i>>}
    /\ done' = IF \A f \in todo' : f[1] # b THEN Append(done, b) ELSE done
    /\ UNCHANGED <<unitVars, srcBytes, chunkSize, order, savedImages, envVars, srcBlobs,
                   recCamera, phase, sndVars>>

DeliverVideoStop ==
    /\ phase = "recording"
    /\ VideoMessage(VideoRecordingService_signalPacket(ActionStop, rec_1, recCamera,
                                                       video_webm))
    /\ phase' = "stopped"
    /\ UNCHANGED <<unitVars, rtVars, envVars, srcBlobs, recCamera, done, sndVars>>

CloseVideoChannel ==
    /\ phase = "recording"
    /\ \E keys \in Orders(DOMAIN videoRecorders) : VideoChannelClose(keys)
    /\ phase' = "closed"
    /\ UNCHANGED <<unitVars, rtVars, envVars, srcBlobs, recCamera, done, sndVars>>

NextVidRT ==
    \/ DeliverVideoStart
    \/ \E f \in todo : DeliverVideoFrame(f[1], f[2])
    \/ DeliverVideoStop
    \/ CloseVideoChannel

SpecVidRT == InitVidRT /\ [][NextVidRT]_vars

\* the blobs of which every chunk has been handed over
CompleteBlobs == {b \in BlobIndexes : \A f \in todo : f[1] # b}

\* the recorder's blobs in S one after the other, blob 0 first
SrcConcat(S) ==
    (IF 0 \in S THEN srcBlobs[0] ELSE <<>>)
        \o (IF 1 \in S THEN srcBlobs[1] ELSE <<>>)
        \o (IF 2 \in S THEN srcBlobs[2] ELSE <<>>)

Finalizing == phase \in {"stopped", "closed"}

\* C3 (video ordering on finalize): when the recording ends after blobs have
\* completed, in whatever order, Finalize writes one file whose bytes are
\* the completed blobs one after the other in ascending blobIndex order.
C3_AscendingOrder ==
    (Finalizing /\ CompleteBlobs # {}) =>
        /\ Len(videoFiles) = 1
        /\ videoFiles[1].bytes = SrcConcat(CompleteBlobs)

\* the same for the recordings whose camera id has at least 8 characters
C3_AscendingOrder_LongCameraId ==
    (Finalizing /\ CompleteBlobs # {} /\ Len(recCamera) >= 8) =>
        /\ Len(videoFiles) = 1
        /\ videoFiles[1].bytes = SrcConcat(CompleteBlobs)

\* the blobs of a recording of camera cam_01 completed in the order 2, 0, 1;
\* the stop signal wrote no file
C3_Witness ==
    /\ phase = "stopped"
    /\ recCamera = cam_01
    /\ done = <<2, 0, 1>>
    /\ videoFiles = <<>>
    /\ log = "error"

\* the blobs of a recording of camera camera_01 completed in the order
\* 2, 0, 1; the stop signal wrote them in the order 0, 1, 2
C3_WitnessLongCameraId ==
    /\ phase = "stopped"
    /\ recCamera = camera_01
    /\ done = <<2, 0, 1>>
    /\ Len(videoFiles) = 1
    /\ videoFiles[1].bytes = srcBlobs[0] \o srcBlobs[1] \o srcBlobs[2]

\* C4 (partial finalize): when the recording ends, by the stop signal or by
\* the close of the channel, while a blob lacks chunks, the output is the
\* fully reassembled blobs one after the other and nothing else (no file
\* when there is none), and no error is raised.
C4_PartialFinalize ==
    (Finalizing /\ CompleteBlobs # BlobIndexes) =>
        /\ ~escaped
        /\ log # "error"
        /\ IF CompleteBlobs = {} THEN videoFiles = <<>>
           ELSE /\ Len(videoFiles) = 1
                /\ videoFiles[1].bytes = SrcConcat(CompleteBlobs)

\* the same for the recordings whose camera id has at least 8 characters
C4_PartialFinalize_LongCameraId ==
    (Finalizing /\ CompleteBlobs # BlobIndexes /\ Len(recCamera) >= 8) =>
        /\ ~escaped
        /\ log # "error"
        /\ IF CompleteBlobs = {} THEN videoFiles = <<>>
           ELSE /\ Len(videoFiles) = 1
                /\ videoFiles[1].bytes = SrcConcat(CompleteBlobs)

\* the channel of a recording of camera cam_01 closed while blob 1 lacked a
\* chunk: the exception of Finalize left the handler, no file was written
\* and the recorder is still in the dictionary
C4_Witness ==
    /\ phase = "closed"
    /\ recCamera = cam_01
    /\ CompleteBlobs = {0, 2}
    /\ \E f \in todo : f[1] = 1
    /\ \E f \in BlobIndexes \X {0} : f[1] = 1 /\ f \notin todo
    /\ escaped
    /\ videoFiles = <<>>
    /\ HasKey(videoRecorders, rec_1)

\* the recording of camera camera_01 was stopped while blob 1 lacked a
\* chunk: the file holds blob 0 and blob 2
C4_WitnessLongCameraId ==
    /\ phase = "stopped"
    /\ recCamera = camera_01
    /\ CompleteBlobs = {0, 2}
    /\ Len(videoFiles) = 1
    /\ videoFiles[1].bytes = srcBlobs[0] \o srcBlobs[2]

----------------------------------------------------------------------------
(* Specification SpecRecv: both message handlers of one connection and the *)
(* close handler of the video channel, under the frames of one image       *)
(* transfer and of two recordings, in any order and any number of times,   *)
(* and under malformed messages on both channels.                          *)

RecvImgHeaders == [CameraId : {cam_01}, ChunkIndex : 0..1, TotalChunks : {2}]

\* recording rec_1 of camera camera_01 with a blob of two chunks, a start
\* frame that announces rec_1 again for another camera and format, and
\* recording rec_2 of camera cam_01 with a blob of one chunk
RecvVidHeaders ==
    { VideoSignalHeader(ActionStart, rec_1, camera_01, video_mp4),
      VideoSignalHeader(ActionStart, rec_1, camera_front_left_01, video_webm),
      VideoSignalHeader(ActionStop, rec_1, camera_01, video_mp4),
      VideoSignalHeader(ActionStart, rec_2, cam_01, video_webm),
      VideoSignalHeader(ActionStop, rec_2, cam_01, video_webm),
      [VideoSignalHeader(ActionData, rec_2, cam_01, video_webm) EXCEPT !.BlobIndex = 1] }
    \cup [Action : {ActionData}, RecordingId : {rec_1}, CameraId : {camera_01},
          MimeType : {video_mp4}, ChunkIndex : 0..1, TotalChunks : {2}, BlobIndex : {0}]

RecvPayloads == {<<0>>, <<1>>}

\* a device id that does not fit the 256-byte header
long_device_id == [i \in 1..200 |-> 97]

LongVideoHeader ==
    [Action |-> ActionData, RecordingId |-> rec_1, CameraId |-> long_device_id,
     MimeType |-> video_mp4, ChunkIndex |-> 0, TotalChunks |-> 1, BlobIndex |-> 0]

\* messages that are no frame: shorter than the header, a header of zero
\* bytes, a header cut off by the sender, the JSON literal null
MalformedVideoFrames ==
    { <<>>,
      SubSeq(VideoRecordingService_signalPacket(ActionStart, rec_1, camera_01, video_mp4),
             1, VideoHeaderSize - 1),
      ZeroPadded(<<>>, VideoHeaderSize) \o <<1>>,
      VideoRecordingService_videoPacket(LongVideoHeader, <<1>>),
      ZeroPadded(JsonNull, VideoHeaderSize) \o <<1>> }

\* the frames handed to the video handler, per recording id: the last
\* start frame, the data frames that followed it up to the stop frame or
\* the close of the channel, how the recording ended, and the data frames
\* of the recording that the start frame found still running, if any
SessionAfter(header, payload) ==
    LET id == header.RecordingId
    IN  IF header.Action = ActionStart
        THEN Put(session, id,
                 [start |-> header, frames |-> <<>>, ended |-> "no",
                  lost |-> IF HasKey(session, id) /\ session[id].ended = "no"
                           THEN Some(session[id].frames) ELSE NULL])
        ELSE IF ~HasKey(session, id) \/ session[id].ended # "no" THEN session
        ELSE IF header.Action = ActionData
        THEN Put(session, id,
                 [session[id] EXCEPT !.frames = Append(@, [header |-> header,
                                                           payload |-> payload])])
        ELSE Put(session, id, [session[id] EXCEPT !.ended = "stop"])

SessionsClosed == [id \in DOMAIN session |-> [session[id] EXCEPT !.ended = "close"]]

VideoFrame(header, payload) ==
    /\ nsteps < MaxFrames
    /\ VideoMessage(VideoRecordingService_videoPacket(header, payload))
    /\ lastKind' = "video"
    /\ nsteps' = nsteps + 1
    /\ replaced' = NULL
    /\ session' = SessionAfter(header, payload)
    /\ UNCHANGED <<unitVars, rtVars, epoch, vrtVars, sndVars>>

MalformedVideoFrame(data) ==
    /\ nsteps < MaxFrames
    /\ VideoMessage(data)
    /\ lastKind' = "malformed_video"
    /\ nsteps' = nsteps + 1
    /\ replaced' = NULL
    /\ UNCHANGED <<unitVars, rtVars, epoch, vrtVars, sndVars, session>>

VideoChannelClosed ==
    /\ nsteps < MaxFrames
    /\ \E keys \in Orders(DOMAIN videoRecorders) : VideoChannelClose(keys)
    /\ lastKind' = "close"
    /\ nsteps' = nsteps + 1
    /\ replaced' = NULL
    /\ session' = SessionsClosed
    /\ UNCHANGED <<unitVars, rtVars, epoch, vrtVars, sndVars>>

InitRecv == InitImg

NextRecv ==
    \/ \E header \in RecvImgHeaders, payload \in RecvPayloads : ImageFrame(header, payload)
    \/ \E data \in MalformedImageFrames : MalformedImageFrame(data)
    \/ \E header \in RecvVidHeaders, payload \in RecvPayloads : VideoFrame(header, payload)
    \/ \E data \in MalformedVideoFrames : MalformedVideoFrame(data)
    \/ VideoChannelClosed

SpecRecv == InitRecv /\ [][NextRecv]_vars

\* C9 (malformed frame tolerance): a message shorter than the header size of
\* its channel, or whose header region does not parse, is dropped: no
\* exception leaves the handler, the reassembler dictionary and the recorder
\* dictionary with everything in them stay as they were, and no file is
\* written. As the handlers read nothing but the message and these two
\* dictionaries, the frames that follow are processed as if the message had
\* never arrived.
C9_MalformedDropped ==
    [][lastKind' \in {"malformed_image", "malformed_video"} =>
           /\ imageAssemblers' = imageAssemblers
           /\ videoRecorders' = videoRecorders
           /\ imageFile' = NULL
           /\ videoFiles' = <<>>
           /\ ~escaped']_vars

\* an image transfer and a blob of a recording were in flight when a video
\* message with an unparsable header was dropped
C9_Witness ==
    /\ lastKind = "malformed_video"
    /\ log = "error"
    /\ HasKey(imageAssemblers, cam_01)
    /\ imageAssemblers[cam_01].received = 1
    /\ HasKey(videoRecorders, rec_1)
    /\ HasKey(videoRecorders[rec_1].blobAssemblers, 0)
    /\ videoRecorders[rec_1].blobAssemblers[0].received = 1

\* the same when an image message shorter than the header was dropped
C9_WitnessImage ==
    /\ lastKind = "malformed_image"
    /\ log = "too_small"
    /\ HasKey(imageAssemblers, cam_01)
    /\ imageAssemblers[cam_01].received = 1
    /\ HasKey(videoRecorders, rec_1)
    /\ HasKey(videoRecorders[rec_1].blobAssemblers, 0)

----------------------------------------------------------------------------
(* Specification SpecSend: the senders of the browser. ImageTransferService *)
(* sends the images of one sendImages call over the image channel;         *)
(* VideoRecordingService sends the start signal, the blobs and the stop    *)
(* signal of one recording over the video channel. The two services share  *)
(* no state; a run exercises one of them. Each channel counts the packets  *)
(* it has not put on the wire yet, may refuse a packet and may close at    *)
(* any moment.                                                             *)

\* number of images of a sendImages call
MaxImages == 2
\* longest image or blob the senders are given, in bytes
MaxSendLen == 2
\* number of blobs the recorder hands over in one recording
MaxSendBlobs == 1
\* the threshold of waitForBufferDrain, in packets; the code's threshold is
\* 1024 * 1024 bytes (image-transfer.service.ts:98)
LowThreshold == 2

ImageCameraIds == {cam_01, camera_front_left_01}
VideoDeviceIds == {camera_01, long_device_id}

\* what sendImages is called with: up to MaxImages images
SendableImages ==
    SeqsUpTo([cameraId : ImageCameraIds,
              imageData : {LabelledBlob(0, n) : n \in 0..MaxSendLen}], MaxImages)

\* an RTCDataChannel: its readyState, its bufferedAmount in packets, the
\* packets send() took, each with the asset and the header it was built
\* from, and the chunks whose send() threw
OpenChannel == [readyState |-> "open", bufferedAmount |-> 0, sent |-> <<>>, rejected |-> {}]

\* dataChannel.send(packet) on an open channel that takes the packet
ChannelSend(channel, asset, header, packet) ==
    [channel EXCEPT !.sent = Append(@, [asset |-> asset, header |-> header,
                                        bytes |-> packet]),
                    !.bufferedAmount = @ + 1]

\* dataChannel.send(packet) that throws
ChannelReject(channel, asset, header) ==
    [channel EXCEPT !.rejected = @ \cup {[asset |-> asset, index |-> header.ChunkIndex]}]

\* what send() throws: InvalidStateError on a channel that is not open,
\* OperationError when the transport cannot take the packet
SendError(channel) ==
    IF channel.readyState # "open" THEN "InvalidStateError" ELSE "OperationError"

\* whether send() takes a packet the transport is ready for
Accepts(channel, accepted) == channel.readyState = "open" /\ accepted

\* a run exercises one service on its channel: whether the run has not
\* turned to the service of the other channel
InUse(kind) ==
    IF kind = "image" THEN videoSend.recording = "none" ELSE imageSend.pc = "idle"

\* whether the other channel is as it was opened
Untouched(kind) == dataChannel[kind] = OpenChannel

\* a wait that ends only once the buffer holds less than nothing
waitForBufferDrain_Never(channel) == channel.bufferedAmount < 0

\* waitForBufferDrain resolves: bufferedAmount < lowThreshold
waitForBufferDrain_Resolves(channel) == channel.bufferedAmount < LowThreshold

\* a pump that does not wait
waitForBufferDrain_NoWait(channel) == TRUE

\* the asset number of a start or stop signal
SignalAsset == -1

\* the images of a call from the first one that has a chunk to send:
\* sendChunkedImage with totalChunks = 0 sends nothing
RECURSIVE SkipEmptyImages(_, _)
SkipEmptyImages(images, size) ==
    IF images = <<>> THEN <<>>
    ELSE IF TotalChunksOf(Len(images[1].imageData), size) = 0
         THEN SkipEmptyImages(Tail(images), size)
    ELSE images

ImageSendIdle == [service |-> "none", pc |-> "idle", total |-> 0, images |-> <<>>,
                  chunk |-> 0, isSending |-> FALSE, sendProgress |-> 0, error |-> "none"]

\* sendProgress once every image before the images left has been sent:
\* (completedImages / totalImages) * 100, 0 as set before the loop
ProgressOf(total, images) ==
    IF total = Len(images) THEN 0 ELSE ((total - Len(images)) * 100) \div total

\* sendImages ended with an error thrown to its caller; finally: isSending false
ImageSendRejected(send, error) ==
    [send EXCEPT !.pc = "rejected", !.images = <<>>, !.chunk = 0, !.isSending = FALSE,
                 !.error = error]

\* the sendImages call once images are left to send, or none
ImageSendOf(send, images) ==
    IF images = <<>>
    THEN [send EXCEPT !.pc = "resolved", !.images = <<>>, !.chunk = 0, !.isSending = FALSE,
                      !.sendProgress = ProgressOf(send.total, images)]
    ELSE [send EXCEPT !.pc = "waiting", !.images = images, !.chunk = 0, !.isSending = TRUE,
                      !.sendProgress = ProgressOf(send.total, images)]

\* sendChunkedImage after chunk i of the first image has been sent: the next
\* chunk, or the next image
ImageSendAfter(send, i, size) ==
    IF i + 1 < TotalChunksOf(Len(send.images[1].imageData), size)
    THEN [send EXCEPT !.chunk = i + 1]
    ELSE ImageSendOf(send, SkipEmptyImages(Tail(send.images), size))

\* the number, within the call, of the image being sent
ImageAssetOf(send) == send.total - Len(send.images)

\* a header that numbers every chunk 0
ImageHeaderOf_IndexZero(image, i, size) ==
    [CameraId |-> image.cameraId, ChunkIndex |-> 0,
     TotalChunks |-> TotalChunksOf(Len(image.imageData), size)]

\* lines 59-63: the header of chunk i of an image
ImageHeaderOf(image, i, size) ==
    [CameraId |-> image.cameraId, ChunkIndex |-> i,
     TotalChunks |-> TotalChunksOf(Len(image.imageData), size)]

VideoSendIdle ==
    [service |-> "none", recording |-> "none", cameraId |-> <<>>, currentBlobIndex |-> 0,
     blobs |-> 0, pc |-> "idle", data |-> <<>>, blobIndex |-> 0, chunk |-> 0,
     error |-> "none"]

\* the number, within the recording, of the blob being sent: blobs that
\* follow a blob whose send threw carry its BlobIndex again, because
\* currentBlobIndex++ is skipped by the exception
VideoAssetOf(send) == send.blobs - 1

\* the header of chunk i of the blob being sent
VideoHeaderOf(send, i, size) ==
    [Action |-> ActionData, RecordingId |-> rec_1, CameraId |-> send.cameraId,
     MimeType |-> video_webm, ChunkIndex |-> i,
     TotalChunks |-> TotalChunksOf(Len(send.data), size), BlobIndex |-> send.blobIndex]

InitSend ==
    /\ dataChannel = [image |-> OpenChannel, video |-> OpenChannel]
    /\ imageSend = ImageSendIdle
    /\ videoSend = VideoSendIdle
    /\ chunkSize \in 1..MaxChunk
    /\ srcBytes = <<>> /\ todo = {} /\ order = <<>> /\ savedImages = <<>>
    /\ UnitIdle /\ ImgIdle /\ VidIdle /\ OutIdle /\ EnvIdle /\ VrtIdle

\* ImageTransferService.sendImages(images) up to its first await
sendImages(images) ==
    /\ imageSend.pc = "idle"
    /\ videoSend.recording = "none"
    /\ Untouched("video")
    /\ imageSend' =
        IF dataChannel.image.readyState # "open"
        THEN ImageSendRejected([ImageSendIdle EXCEPT !.service = "ImageTransferService"],
                               "Image data channel not available")
        ELSE ImageSendOf([ImageSendIdle EXCEPT !.service = "ImageTransferService",
                                               !.total = Len(images)],
                         SkipEmptyImages(images, chunkSize))
    /\ UNCHANGED <<dataChannel, videoSend>>
    /\ UNCHANGED <<unitVars, rtVars, imgVars, vidVars, outVars, envVars, vrtVars>>

\* sendChunkedImage from the moment waitForBufferDrain finds the buffer below
\* the threshold: dataChannel.send(packet), whose exception ends sendImages,
\* then the loop up to the next await
ImagePump(accepted) ==
    /\ imageSend.service = "ImageTransferService"
    /\ imageSend.pc = "waiting"
    /\ waitForBufferDrain_Resolves(dataChannel.image)
    /\ IF ~Accepts(dataChannel.image, accepted)
       THEN /\ imageSend' = ImageSendRejected(imageSend, SendError(dataChannel.image))
            /\ dataChannel' =
                [dataChannel EXCEPT !.image =
                    ChannelReject(@, ImageAssetOf(imageSend),
                                  ImageHeaderOf(imageSend.images[1], imageSend.chunk,
                                                chunkSize))]
       ELSE /\ dataChannel' =
                [dataChannel EXCEPT !.image =
                    ChannelSend(@, ImageAssetOf(imageSend),
                                ImageHeaderOf(imageSend.images[1], imageSend.chunk,
                                              chunkSize),
                                ImageTransferService_createImagePacket(
                                    ImageHeaderOf(imageSend.images[1], imageSend.chunk,
                                                  chunkSize),
                                    ChunkOf(imageSend.images[1].imageData, imageSend.chunk,
                                            chunkSize)))]
            /\ imageSend' = ImageSendAfter(imageSend, imageSend.chunk, chunkSize)
    /\ UNCHANGED videoSend
    /\ UNCHANGED <<unitVars, rtVars, imgVars, vidVars, outVars, envVars, vrtVars>>

\* VideoRecordingService.startRecording(cameraId, stream, mimeType): null
\* without an open channel and when the send of the start signal throws
\* inside the try block
startRecording(cameraId, accepted) ==
    /\ videoSend.recording = "none"
    /\ imageSend.pc = "idle"
    /\ Untouched("image")
    /\ IF dataChannel.video.readyState # "open"
       THEN /\ videoSend' = [videoSend EXCEPT !.service = "VideoRecordingService",
                                              !.recording = "refused"]
            /\ UNCHANGED dataChannel
       ELSE IF ~accepted
       THEN /\ videoSend' = [videoSend EXCEPT !.service = "VideoRecordingService",
                                              !.recording = "refused"]
            /\ dataChannel' =
                [dataChannel EXCEPT !.video =
                    ChannelReject(@, SignalAsset,
                                  VideoSignalHeader(ActionStart, rec_1, cameraId,
                                                    video_webm))]
       ELSE /\ videoSend' = [videoSend EXCEPT !.service = "VideoRecordingService",
                                              !.recording = "active",
                                              !.cameraId = cameraId,
                                              !.currentBlobIndex = 0]
            /\ dataChannel' =
                [dataChannel EXCEPT !.video =
                    ChannelSend(@, SignalAsset,
                                VideoSignalHeader(ActionStart, rec_1, cameraId, video_webm),
                                VideoRecordingService_signalPacket(ActionStart, rec_1,
                                                                   cameraId, video_webm))]
    /\ UNCHANGED imageSend
    /\ UNCHANGED <<unitVars, rtVars, imgVars, vidVars, outVars, envVars, vrtVars>>

\* mediaRecorder.ondataavailable with a non-empty blob, up to the first
\* await of sendSingleVideoPacket; without an open channel every chunk is
\* skipped and the blob counter moves on. The recorder hands over the next
\* blob after the handler of the one before has ended.
ondataavailable(data) ==
    /\ videoSend.service = "VideoRecordingService"
    /\ videoSend.recording = "active"
    /\ videoSend.pc = "idle"
    /\ videoSend.blobs < MaxSendBlobs
    /\ videoSend' = IF dataChannel.video.readyState # "open"
                    THEN [videoSend EXCEPT !.blobs = @ + 1, !.currentBlobIndex = @ + 1]
                    ELSE [videoSend EXCEPT !.blobs = @ + 1, !.pc = "waiting",
                                           !.data = data,
                                           !.blobIndex = videoSend.currentBlobIndex,
                                           !.chunk = 0]
    /\ UNCHANGED <<dataChannel, imageSend>>
    /\ UNCHANGED <<unitVars, rtVars, imgVars, vidVars, outVars, envVars, vrtVars>>

\* sendSingleVideoPacket from the moment waitForBufferDrain finds the buffer
\* below the threshold: dataChannel.send(packet), whose exception ends the
\* handler, then the loop of sendVideoChunked up to the next await, or
\* currentBlobIndex++
VideoPump(accepted) ==
    /\ videoSend.service = "VideoRecordingService"
    /\ videoSend.pc = "waiting"
    /\ waitForBufferDrain_Resolves(dataChannel.video)
    /\ IF ~Accepts(dataChannel.video, accepted)
       THEN /\ videoSend' = [videoSend EXCEPT !.pc = "idle",
                                              !.error = SendError(dataChannel.video)]
            /\ dataChannel' =
                [dataChannel EXCEPT !.video =
                    ChannelReject(@, VideoAssetOf(videoSend),
                                  VideoHeaderOf(videoSend, videoSend.chunk, chunkSize))]
       ELSE /\ dataChannel' =
                [dataChannel EXCEPT !.video =
                    ChannelSend(@, VideoAssetOf(videoSend),
                                VideoHeaderOf(videoSend, videoSend.chunk, chunkSize),
                                VideoPacketOf(rec_1, videoSend.cameraId, video_webm,
                                              videoSend.data, videoSend.blobIndex,
                                              chunkSize, videoSend.chunk))]
            /\ videoSend' =
                IF videoSend.chunk + 1 < TotalChunksOf(Len(videoSend.data), chunkSize)
                THEN [videoSend EXCEPT !.chunk = @ + 1]
                ELSE [videoSend EXCEPT !.pc = "idle", !.currentBlobIndex = @ + 1]
    /\ UNCHANGED imageSend
    /\ UNCHANGED <<unitVars, rtVars, imgVars, vidVars, outVars, envVars, vrtVars>>

\* mediaRecorder.onstop: the stop signal, when the channel is open; a send
\* that throws ends the handler
onstop(accepted) ==
    /\ videoSend.service = "VideoRecordingService"
    /\ videoSend.recording = "active"
    /\ videoSend' = [videoSend EXCEPT !.recording = "stopped"]
    /\ dataChannel' =
        IF dataChannel.video.readyState # "open" THEN dataChannel
        ELSE IF ~accepted
        THEN [dataChannel EXCEPT !.video =
                 ChannelReject(@, SignalAsset,
                               VideoSignalHeader(ActionStop, rec_1, videoSend.cameraId,
                                                 video_webm))]
        ELSE [dataChannel EXCEPT !.video =
                 ChannelSend(@, SignalAsset,
                             VideoSignalHeader(ActionStop, rec_1, videoSend.cameraId,
                                               video_webm),
                             VideoRecordingService_signalPacket(ActionStop, rec_1,
                                                                videoSend.cameraId,
                                                                video_webm))]
    /\ UNCHANGED imageSend
    /\ UNCHANGED <<unitVars, rtVars, imgVars, vidVars, outVars, envVars, vrtVars>>

\* the transport puts a buffered packet of a channel on the wire
Drain(kind) ==
    /\ dataChannel[kind].bufferedAmount > 0
    /\ dataChannel' = [dataChannel EXCEPT ![kind].bufferedAmount = @ - 1]
    /\ UNCHANGED <<imageSend, videoSend>>
    /\ UNCHANGED <<unitVars, rtVars, imgVars, vidVars, outVars, envVars, vrtVars>>

\* a channel closes
ChannelCloses(kind) ==
    /\ InUse(kind)
    /\ dataChannel[kind].readyState = "open"
    /\ dataChannel' = [dataChannel EXCEPT ![kind].readyState = "closed"]
    /\ UNCHANGED <<imageSend, videoSend>>
    /\ UNCHANGED <<unitVars, rtVars, imgVars, vidVars, outVars, envVars, vrtVars>>

ChannelKinds == {"image", "video"}

NextSend ==
    \/ \E images \in SendableImages : sendImages(images)
    \/ \E accepted \in BOOLEAN : ImagePump(accepted)
    \/ \E cameraId \in VideoDeviceIds, accepted \in BOOLEAN : startRecording(cameraId, accepted)
    \/ \E n \in 1..MaxSendLen : ondataavailable(LabelledBlob(videoSend.currentBlobIndex, n))
    \/ \E accepted \in BOOLEAN : VideoPump(accepted)
    \/ \E accepted \in BOOLEAN : onstop(accepted)
    \/ \E kind \in ChannelKinds : Drain(kind)
    \/ \E kind \in ChannelKinds : ChannelCloses(kind)

SpecSend == InitSend /\ [][NextSend]_vars

\* whether the JSON text of the header a packet was built from fits the
\* header region of its channel
ImageHeaderFits(packet) == Len(StringifyChunkHeader(packet.header)) <= ImageHeaderSize
VideoHeaderFits(packet) == Len(StringifyVideoChunkHeader(packet.header)) <= VideoHeaderSize

\* C10 (oversized header rejection): no packet is handed to a channel whose
\* header, written as JSON, is longer than the header region of its kind
\* (64 bytes image, 256 bytes video): the sender fails before it sends
\* anything of such an asset, and no cut-off header goes out.
C10_NoOversizedHeaderSent ==
    /\ \A k \in 1..Len(dataChannel.image.sent) : ImageHeaderFits(dataChannel.image.sent[k])
    /\ \A k \in 1..Len(dataChannel.video.sent) : VideoHeaderFits(dataChannel.video.sent[k])

\* sendImages resolved without an error after it sent a packet of 64 + 1
\* bytes for camera camera_front_left_01 whose header region is the first
\* 64 bytes of a 66-byte JSON text
C10_Witness ==
    /\ imageSend.pc = "resolved"
    /\ imageSend.error = "none"
    /\ \E k \in 1..Len(dataChannel.image.sent) :
           /\ dataChannel.image.sent[k].header.CameraId = camera_front_left_01
           /\ Len(StringifyChunkHeader(dataChannel.image.sent[k].header)) = 66
           /\ Len(dataChannel.image.sent[k].bytes) = ImageHeaderSize + 1
           /\ SubSeq(dataChannel.image.sent[k].bytes, 1, ImageHeaderSize)
                  = SubSeq(StringifyChunkHeader(dataChannel.image.sent[k].header), 1,
                           ImageHeaderSize)

\* the same on the video channel: a data packet of a recording of a device
\* with a 200-character id went out with a cut-off header
C10_WitnessVideo ==
    \E k \in 1..Len(dataChannel.video.sent) :
        /\ dataChannel.video.sent[k].header.Action = ActionData
        /\ ~VideoHeaderFits(dataChannel.video.sent[k])
        /\ Len(dataChannel.video.sent[k].bytes) <= VideoHeaderSize + MaxSendLen
        /\ SubSeq(dataChannel.video.sent[k].bytes, 1, VideoHeaderSize)
               = SubSeq(StringifyVideoChunkHeader(dataChannel.video.sent[k].header), 1,
                        VideoHeaderSize)

----------------------------------------------------------------------------
(* WebRtcService, the sender that holds both channels: createImagePacket   *)
(* throws on a header that does not fit, the video packets with such a     *)
(* header are skipped, the video sends are wrapped in try/catch, and the   *)
(* buffer waits compare with > against MAX_BUFFERED.                       *)

\* MAX_BUFFERED of waitForImageBufferDrain, in packets; the code's value is
\* 256 * 1024 bytes (part_002:381)
MaxBufferedImage == 1
\* MAX_BUFFERED of waitForVideoBufferDrain, in packets; the code's value is
\* 1024 * 1024 bytes (part_002:391)
MaxBufferedVideo == 2

\* waitForImageBufferDrain leaves its loop: not (bufferedAmount > MAX_BUFFERED)
WebRtcService_waitForImageBufferDrain_Resolves(channel) ==
    ~(channel.bufferedAmount > MaxBufferedImage)

\* waitForVideoBufferDrain leaves its loop
WebRtcService_waitForVideoBufferDrain_Resolves(channel) ==
    ~(channel.bufferedAmount > MaxBufferedVideo)

\* sendImages / sendChunkedImage at chunk i of the first of the images left:
\* createImagePacket, whose RangeError ends sendImages, then the await of
\* waitForImageBufferDrain; resolved when no image is left
WebRtcService_ImageSendAt(send, images, i, size) ==
    IF images = <<>>
    THEN [send EXCEPT !.pc = "resolved", !.images = <<>>, !.chunk = 0, !.isSending = FALSE,
                      !.sendProgress = ProgressOf(send.total, images)]
    ELSE IF WebRtcService_createImagePacket_Throws(ImageHeaderOf(images[1], i, size))
    THEN ImageSendRejected([send EXCEPT !.sendProgress = ProgressOf(send.total, images)],
                           "RangeError")
    ELSE [send EXCEPT !.pc = "waiting", !.images = images, !.chunk = i, !.isSending = TRUE,
                      !.sendProgress = ProgressOf(send.total, images)]

\* sendChunkedImage after chunk i of the first image has been sent
WebRtcService_ImageSendAfter(send, i, size) ==
    IF i + 1 < TotalChunksOf(Len(send.images[1].imageData), size)
    THEN WebRtcService_ImageSendAt(send, send.images, i + 1, size)
    ELSE WebRtcService_ImageSendAt(send, SkipEmptyImages(Tail(send.images), size), 0, size)

\* WebRtcService.sendImages(images) up to its first await
WebRtcService_sendImages(images) ==
    /\ imageSend.pc = "idle"
    /\ videoSend.recording = "none"
    /\ Untouched("video")
    /\ imageSend' =
        IF dataChannel.image.readyState # "open"
        THEN ImageSendRejected([ImageSendIdle EXCEPT !.service = "WebRtcService"],
                               "Image data channel is not open")
        ELSE WebRtcService_ImageSendAt([ImageSendIdle EXCEPT !.service = "WebRtcService",
                                                             !.total = Len(images)],
                                       SkipEmptyImages(images, chunkSize), 0, chunkSize)
    /\ UNCHANGED <<dataChannel, videoSend>>
    /\ UNCHANGED <<unitVars, rtVars, imgVars, vidVars, outVars, envVars, vrtVars>>

\* sendChunkedImage from the moment waitForImageBufferDrain finds
\* bufferedAmount not above MAX_BUFFERED: imageDataChannel.send(packet),
\* whose exception ends sendImages, then the loop up to the next await
WebRtcService_ImagePump(accepted) ==
    /\ imageSend.service = "WebRtcService"
    /\ imageSend.pc = "waiting"
    /\ WebRtcService_waitForImageBufferDrain_Resolves(dataChannel.image)
    /\ IF ~Accepts(dataChannel.image, accepted)
       THEN /\ imageSend' = ImageSendRejected(imageSend, SendError(dataChannel.image))
            /\ dataChannel' =
                [dataChannel EXCEPT !.image =
                    ChannelReject(@, ImageAssetOf(imageSend),
                                  ImageHeaderOf(imageSend.images[1], imageSend.chunk,
                                                chunkSize))]
       ELSE /\ dataChannel' =
                [dataChannel EXCEPT !.image =
                    ChannelSend(@, ImageAssetOf(imageSend),
                                ImageHeaderOf(imageSend.images[1], imageSend.chunk,
                                              chunkSize),
                                ImagePacketOf(imageSend.images[1].cameraId,
                                              imageSend.images[1].imageData, chunkSize,
                                              imageSend.chunk))]
            /\ imageSend' = WebRtcService_ImageSendAfter(imageSend, imageSend.chunk, chunkSize)
    /\ UNCHANGED videoSend
    /\ UNCHANGED <<unitVars, rtVars, imgVars, vidVars, outVars, envVars, vrtVars>>

\* headerBytes.length > VIDEO_HEADER_SIZE: console.error and return
WebRtcService_VideoHeaderTooLarge(header) ==
    Len(StringifyVideoChunkHeader(header)) > VideoHeaderSize

\* packet.set(headerBytes) and the chunk behind the header region
WebRtcService_videoPacket(header, chunkData) ==
    ZeroPadded(StringifyVideoChunkHeader(header), VideoHeaderSize) \o chunkData

\* sendVideoSignal: nothing without an open channel and for a header that
\* does not fit; an exception of send is caught and logged
WebRtcService_sendVideoSignal(channel, action, cameraId, accepted) ==
    IF channel.readyState # "open" THEN channel
    ELSE IF WebRtcService_VideoHeaderTooLarge(
                VideoSignalHeader(action, rec_1, cameraId, video_webm))
    THEN channel
    ELSE IF ~accepted
    THEN ChannelReject(channel, SignalAsset,
                       VideoSignalHeader(action, rec_1, cameraId, video_webm))
    ELSE ChannelSend(channel, SignalAsset,
                     VideoSignalHeader(action, rec_1, cameraId, video_webm),
                     WebRtcService_videoPacket(
                         VideoSignalHeader(action, rec_1, cameraId, video_webm), <<>>))

\* sendVideoChunked from chunk i on: sendSingleVideoPacket returns at once
\* without an open channel and for a header that does not fit, and the loop
\* goes on; else the await of waitForVideoBufferDrain. After the last chunk
\* sendVideoChunked resolves and ondataavailable does currentBlobIndex++.
RECURSIVE WebRtcService_VideoSendAt(_, _, _, _)
WebRtcService_VideoSendAt(send, channel, i, size) ==
    IF i >= TotalChunksOf(Len(send.data), size)
    THEN [send EXCEPT !.pc = "idle", !.currentBlobIndex = @ + 1]
    ELSE IF \/ channel.readyState # "open"
            \/ WebRtcService_VideoHeaderTooLarge(VideoHeaderOf(send, i, size))
    THEN WebRtcService_VideoSendAt(send, channel, i + 1, size)
    ELSE [send EXCEPT !.pc = "waiting", !.chunk = i]

\* WebRtcService.startRecording(cameraId, stream, mimeType): null without an
\* open channel, else the start signal and the recorder
WebRtcService_startRecording(cameraId, accepted) ==
    /\ videoSend.recording = "none"
    /\ imageSend.pc = "idle"
    /\ Untouched("image")
    /\ IF dataChannel.video.readyState # "open"
       THEN /\ videoSend' = [videoSend EXCEPT !.service = "WebRtcService",
                                              !.recording = "refused"]
            /\ UNCHANGED dataChannel
       ELSE /\ videoSend' = [videoSend EXCEPT !.service = "WebRtcService",
                                              !.recording = "active",
                                              !.cameraId = cameraId,
                                              !.currentBlobIndex = 0]
            /\ dataChannel' =
                [dataChannel EXCEPT !.video =
                    WebRtcService_sendVideoSignal(@, ActionStart, cameraId, accepted)]
    /\ UNCHANGED imageSend
    /\ UNCHANGED <<unitVars, rtVars, imgVars, vidVars, outVars, envVars, vrtVars>>

\* mediaRecorder.ondataavailable with a non-empty blob, up to the first
\* await of waitForVideoBufferDrain or to the end of the handler. The
\* recorder hands over the next blob after the handler of the one before has
\* ended.
WebRtcService_ondataavailable(data) ==
    /\ videoSend.service = "WebRtcService"
    /\ videoSend.recording = "active"
    /\ videoSend.pc = "idle"
    /\ videoSend.blobs < MaxSendBlobs
    /\ videoSend' =
        WebRtcService_VideoSendAt(
            [videoSend EXCEPT !.blobs = @ + 1, !.data = data,
                              !.blobIndex = videoSend.currentBlobIndex, !.chunk = 0],
            dataChannel.video, 0, chunkSize)
    /\ UNCHANGED <<dataChannel, imageSend>>
    /\ UNCHANGED <<unitVars, rtVars, imgVars, vidVars, outVars, envVars, vrtVars>>

\* sendSingleVideoPacket from the moment waitForVideoBufferDrain finds
\* bufferedAmount not above MAX_BUFFERED: videoDataChannel.send(packet)
\* inside try/catch, then the loop of sendVideoChunked from the next chunk
WebRtcService_VideoPump(accepted) ==
    /\ videoSend.service = "WebRtcService"
    /\ videoSend.pc = "waiting"
    /\ WebRtcService_waitForVideoBufferDrain_Resolves(dataChannel.video)
    /\ dataChannel' =
        [dataChannel EXCEPT !.video =
            IF ~Accepts(dataChannel.video, accepted)
            THEN ChannelReject(@, VideoAssetOf(videoSend),
                               VideoHeaderOf(videoSend, videoSend.chunk, chunkSize))
            ELSE ChannelSend(@, VideoAssetOf(videoSend),
                             VideoHeaderOf(videoSend, videoSend.chunk, chunkSize),
                             WebRtcService_videoPacket(
                                 VideoHeaderOf(videoSend, videoSend.chunk, chunkSize),
                                 ChunkOf(videoSend.data, videoSend.chunk, chunkSize)))]
    /\ videoSend' = WebRtcService_VideoSendAt(videoSend, dataChannel.video,
                                              videoSend.chunk + 1, chunkSize)
    /\ UNCHANGED imageSend
    /\ UNCHANGED <<unitVars, rtVars, imgVars, vidVars, outVars, envVars, vrtVars>>

\* mediaRecorder.onstop: the stop signal
WebRtcService_onstop(accepted) ==
    /\ videoSend.service = "WebRtcService"
    /\ videoSend.recording = "active"
    /\ videoSend' = [videoSend EXCEPT !.recording = "stopped"]
    /\ dataChannel' =
        [dataChannel EXCEPT !.video =
            WebRtcService_sendVideoSignal(@, ActionStop, videoSend.cameraId, accepted)]
    /\ UNCHANGED imageSend
    /\ UNCHANGED <<unitVars, rtVars, imgVars, vidVars, outVars, envVars, vrtVars>>

NextWebRtc ==
    \/ \E images \in SendableImages : WebRtcService_sendImages(images)
    \/ \E accepted \in BOOLEAN : WebRtcService_ImagePump(accepted)
    \/ \E cameraId \in VideoDeviceIds, accepted \in BOOLEAN :
           WebRtcService_startRecording(cameraId, accepted)
    \/ \E n \in 1..MaxSendLen :
           WebRtcService_ondataavailable(LabelledBlob(videoSend.currentBlobIndex, n))
    \/ \E accepted \in BOOLEAN : WebRtcService_VideoPump(accepted)
    \/ \E accepted \in BOOLEAN : WebRtcService_onstop(accepted)

\* Specification SpecWebRtc: WebRtcService against its channels
NextWebRtcRun ==
    \/ NextWebRtc
    \/ \E kind \in ChannelKinds : Drain(kind)
    \/ \E kind \in ChannelKinds : ChannelCloses(kind)

SpecWebRtc == InitSend /\ [][NextWebRtcRun]_vars

\* Specification SpecSenders: a run of either sender against its channels
NextSenders == NextSend \/ NextWebRtc

SpecSenders == InitSend /\ [][NextSenders]_vars

\* the JSON text of a header against the header region of its channel
VideoFits(header) == Len(StringifyVideoChunkHeader(header)) <= VideoHeaderSize
ImageFits(header) == Len(StringifyChunkHeader(header)) <= ImageHeaderSize

(* C11 (header overflow is surfaced): a sender never waits to send a chunk *)
(* whose header does not fit the header region, and once the handler of a  *)
(* video blob whose header does not fit has ended on an open channel, an   *)
(* error has reached that handler; an image with such a header makes       *)
(* sendImages reject before the chunk is sent.                             *)
C11_HeaderOverflowSurfaced ==
    /\ imageSend.pc = "waiting"
          => ImageFits(ImageHeaderOf(imageSend.images[1], imageSend.chunk, chunkSize))
    /\ videoSend.pc = "waiting"
          => VideoFits(VideoHeaderOf(videoSend, videoSend.chunk, chunkSize))
    /\ (/\ videoSend.blobs > 0
        /\ videoSend.pc = "idle"
        /\ dataChannel.video.readyState = "open"
        /\ ~VideoFits(VideoHeaderOf(videoSend, 0, chunkSize)))
          => videoSend.error # "none"

\* WebRtcService was handed a blob of a device with a 200-character id on an
\* open channel that refused nothing: the handler has ended, the blob counter
\* has moved on, nothing was sent and no error reached the handler
C11_Witness ==
    /\ videoSend.service = "WebRtcService"
    /\ videoSend.cameraId = long_device_id
    /\ videoSend.blobs = 1
    /\ videoSend.data # <<>>
    /\ videoSend.pc = "idle"
    /\ videoSend.currentBlobIndex = 1
    /\ videoSend.error = "none"
    /\ dataChannel.video.readyState = "open"
    /\ dataChannel.video.sent = <<>>
    /\ dataChannel.video.rejected = {}

\* the image side of WebRtcService does surface it: sendImages rejected with
\* the RangeError of createImagePacket and sent nothing
C11_WitnessImage ==
    /\ imageSend.service = "WebRtcService"
    /\ imageSend.pc = "rejected"
    /\ imageSend.error = "RangeError"
    /\ ~imageSend.isSending
    /\ dataChannel.image.sent = <<>>

\* the frames of an asset a channel took, in the order it took them
FramesOf(channel, asset) == SelectSeq(channel.sent, LAMBDA f : f.asset = asset)

\* the numbers of the assets a channel took a frame of or refused a chunk of
AssetsOf(channel) ==
    ({channel.sent[k].asset : k \in 1..Len(channel.sent)}
        \cup {r.asset : r \in channel.rejected}) \ {SignalAsset}

(* C12 (a transmit failure aborts the asset): when send() threw for chunk  *)
(* i of an asset, the error has reached the caller of the pump, and the    *)
(* channel took no frame of that asset with an index of i or above.        *)
C12_TransmitFailureAborts ==
    /\ \A kind \in ChannelKinds : \A r \in dataChannel[kind].rejected :
           r.asset # SignalAsset =>
               \A k \in 1..Len(dataChannel[kind].sent) :
                   dataChannel[kind].sent[k].asset = r.asset
                       => dataChannel[kind].sent[k].header.ChunkIndex < r.index
    /\ dataChannel.image.rejected # {}
          => (imageSend.pc = "rejected" /\ imageSend.error # "none")
    /\ (\E r \in dataChannel.video.rejected : r.asset # SignalAsset)
          => videoSend.error # "none"

\* send() threw for chunk 0 of a blob on a channel that is still open, no
\* error reached the handler, and the channel took chunk 1 of that blob
C12_Witness ==
    /\ videoSend.service = "WebRtcService"
    /\ videoSend.error = "none"
    /\ dataChannel.video.readyState = "open"
    /\ [asset |-> 0, index |-> 0] \in dataChannel.video.rejected
    /\ \E k \in 1..Len(dataChannel.video.sent) :
           /\ dataChannel.video.sent[k].asset = 0
           /\ dataChannel.video.sent[k].header.ChunkIndex = 1

\* the image pump of WebRtcService does abort: chunk 0 was refused, sendImages
\* rejected and nothing of the image went out
C12_WitnessImage ==
    /\ imageSend.service = "WebRtcService"
    /\ imageSend.pc = "rejected"
    /\ imageSend.error = "OperationError"
    /\ [asset |-> 0, index |-> 0] \in dataChannel.image.rejected
    /\ dataChannel.image.sent = <<>>

\* whether the pump has ended the transfer of an asset
Ended(kind, asset) ==
    IF kind = "image"
    THEN \/ imageSend.pc = "resolved"
         \/ imageSend.pc = "waiting" /\ asset < ImageAssetOf(imageSend)
    ELSE \/ videoSend.pc = "idle"
         \/ asset < VideoAssetOf(videoSend)

\* whether send() threw for a chunk of an asset
Refused(channel, asset) == \E r \in channel.rejected : r.asset = asset

\* a header without its chunk index: the asset key and totalChunks
AssetOfHeader(header) == [header EXCEPT !.ChunkIndex = 0]

\* C13 for the frames a channel took of one asset
OrderedFrames(kind, asset, frames) ==
    /\ \A k \in 1..Len(frames) :
           /\ AssetOfHeader(frames[k].header) = AssetOfHeader(frames[1].header)
           /\ frames[k].header.ChunkIndex \in 0..(frames[k].header.TotalChunks - 1)
    /\ \A k \in 1..(Len(frames) - 1) :
           frames[k].header.ChunkIndex < frames[k + 1].header.ChunkIndex
    /\ ~Refused(dataChannel[kind], asset)
          => /\ \A k \in 1..Len(frames) : frames[k].header.ChunkIndex = k - 1
             /\ Ended(kind, asset) => Len(frames) = frames[1].header.TotalChunks

(* C13 (sender ordering): the frames a channel took of one asset carry the  *)
(* same key and totalChunks and strictly increasing chunk indexes; unless   *)
(* send() threw for the asset they are the indexes 0, 1, ... without a gap *)
(* or a repeat, up to totalChunks - 1 once the pump has ended the asset.   *)
C13_SenderOrdering ==
    \A kind \in ChannelKinds : \A asset \in AssetsOf(dataChannel[kind]) :
        OrderedFrames(kind, asset, FramesOf(dataChannel[kind], asset))

\* sendImages resolved after two images of the same camera: two frames of
\* the first, then the frame of the second
C13_Witness ==
    /\ imageSend.pc = "resolved"
    /\ Len(dataChannel.image.sent) = 3
    /\ dataChannel.image.rejected = {}
    /\ \A k \in 1..3 : dataChannel.image.sent[k].header.CameraId = cam_01
    /\ dataChannel.image.sent[1].asset = 0 /\ dataChannel.image.sent[1].header.ChunkIndex = 0
    /\ dataChannel.image.sent[2].asset = 0 /\ dataChannel.image.sent[2].header.ChunkIndex = 1
    /\ dataChannel.image.sent[3].asset = 1 /\ dataChannel.image.sent[3].header.ChunkIndex = 0

\* WebRtcService has sent both chunks of a blob behind the start signal
C13_WitnessVideo ==
    /\ videoSend.service = "WebRtcService"
    /\ videoSend.pc = "idle"
    /\ videoSend.currentBlobIndex = 1
    /\ Len(dataChannel.video.sent) = 3
    /\ dataChannel.video.sent[1].header.Action = ActionStart
    /\ dataChannel.video.sent[2].header.ChunkIndex = 0
    /\ dataChannel.video.sent[3].header.ChunkIndex = 1
    /\ dataChannel.video.sent[3].header.TotalChunks = 2

\* the chunks 0 .. n - 1 of a buffer, one after the other
RECURSIVE ConcatChunks(_, _, _)
ConcatChunks(bytes, n, size) ==
    IF n = 0 THEN <<>>
    ELSE ConcatChunks(bytes, n - 1, size) \o ChunkOf(bytes, n - 1, size)

\* bytes[i * size : min((i + 1) * size, byteLength)], byte by byte
BytesOfRange(bytes, i, size) ==
    [j \in 1..(Min((i + 1) * size, Len(bytes)) - i * size) |-> bytes[i * size + j]]

\* the chunks that hold the byte at position p (counted from 1)
ChunksHolding(p, total, size, byteLength) ==
    {i \in 0..(total - 1) : i * size < p /\ p <= Min((i + 1) * size, byteLength)}

\* C14 for a buffer cut into totalChunks chunks of a chunk size
Sliced(bytes, total, size) ==
    /\ total * size >= Len(bytes)
    /\ total > 0 => (total - 1) * size < Len(bytes)
    /\ (total = 0) <=> (bytes = <<>>)
    /\ \A i \in 0..(total - 1) :
           /\ ChunkOf(bytes, i, size) = BytesOfRange(bytes, i, size)
           /\ i < total - 1 => Len(ChunkOf(bytes, i, size)) = size
           /\ Len(ChunkOf(bytes, i, size)) \in 1..size
    /\ \A p \in 1..Len(bytes) : Cardinality(ChunksHolding(p, total, size, Len(bytes))) = 1
    /\ ConcatChunks(bytes, total, size) = bytes

(* C14 (sender slicing): totalChunks is ceil(byteLength / chunkSize), chunk *)
(* i is bytes[i * chunkSize : min((i + 1) * chunkSize, byteLength)], every  *)
(* byte lies in exactly one chunk, the chunks in index order make up the    *)
(* bytes, every chunk but the last has chunkSize bytes and none is empty;  *)
(* the chunks handed to the receiver are these slices.                     *)
C14_SenderSlicing ==
    /\ Sliced(srcBytes, TotalChunksOf(Len(srcBytes), chunkSize), chunkSize)
    /\ \A k \in 1..Len(recent) :
           recent[k].data = BytesOfRange(srcBytes, recent[k].index, chunkSize)

\* three bytes in chunks of two: a full chunk and a last chunk of one byte,
\* both handed over
C14_Witness ==
    /\ Len(srcBytes) = 3
    /\ chunkSize = 2
    /\ todo = {}
    /\ Len(recent) = 2
    /\ {Len(recent[1].data), Len(recent[2].data)} = {1, 2}

\* a step in which a channel took a chunk frame
ChunkFrameTaken(kind) ==
    /\ Len(dataChannel[kind].sent') = Len(dataChannel[kind].sent) + 1
    /\ dataChannel[kind].sent'[Len(dataChannel[kind].sent')].asset # SignalAsset

\* the service that drives a channel
ServiceOf(kind) == IF kind = "image" THEN imageSend.service ELSE videoSend.service

\* the mark the pump of a channel compares bufferedAmount with
HighWaterMark(kind) ==
    IF ServiceOf(kind) # "WebRtcService" THEN LowThreshold
    ELSE IF kind = "image" THEN MaxBufferedImage
    ELSE MaxBufferedVideo

(* C15 (backpressure): a channel takes a chunk frame only in a step that    *)
(* starts with its bufferedAmount strictly below the mark of its pump.     *)
C15_StrictlyBelowMark ==
    [][\A kind \in ChannelKinds :
          ChunkFrameTaken(kind) => dataChannel[kind].bufferedAmount < HighWaterMark(kind)]_vars

(* C15 as the code has it: the pumps of ImageTransferService and           *)
(* VideoRecordingService send with bufferedAmount strictly below their     *)
(* threshold, the pumps of WebRtcService with bufferedAmount at or below   *)
(* MAX_BUFFERED; above it they send nothing.                               *)
C15_NotAboveMark ==
    [][\A kind \in ChannelKinds :
          ChunkFrameTaken(kind) =>
              IF ServiceOf(kind) = "WebRtcService"
              THEN dataChannel[kind].bufferedAmount <= HighWaterMark(kind)
              ELSE dataChannel[kind].bufferedAmount < HighWaterMark(kind)]_vars

\* the image channel of WebRtcService holds one packet more than
\* MAX_BUFFERED: it took a chunk frame with bufferedAmount = MAX_BUFFERED,
\* and the pump now waits with a chunk in hand
C15_Witness ==
    /\ imageSend.service = "WebRtcService"
    /\ imageSend.pc = "waiting"
    /\ dataChannel.image.bufferedAmount = MaxBufferedImage + 1
    /\ Len(dataChannel.image.sent) = MaxBufferedImage + 1

\* the image channel of ImageTransferService is at the threshold and the
\* pump waits
C15_WitnessBlocked ==
    /\ imageSend.service = "ImageTransferService"
    /\ imageSend.pc = "waiting"
    /\ dataChannel.image.bufferedAmount = LowThreshold
    /\ ~ENABLED ImagePump(TRUE)

\* the keys of the frames the image handler is given
ImageKeys == {header.CameraId : header \in ImgHeaders}

\* a step in which the handler is given a frame of a key with a chunk index
\* of the set
ImageFrameOf(key, indexes) ==
    \E header \in ImgHeaders, payload \in ImgPayloads :
        /\ header.CameraId = key
        /\ header.ChunkIndex \in indexes
        /\ lastKind' = "image"
        /\ epoch' = EpochAfter(header, payload)
        /\ ImageFrame(header, payload)

\* a step that writes an image leaves no entry for its key
EmissionRemoves ==
    imageFile' # NULL => ~HasKey(imageAssemblers', imageFile'[1].CameraId)

\* an entry disappears in the step that writes the image of its key
RemovalEmits ==
    \A key \in ImageKeys :
        (HasKey(imageAssemblers, key) /\ ~HasKey(imageAssemblers', key))
            => (imageFile' # NULL /\ imageFile'[1].CameraId = key)

\* whether the image of a key has been written and the key has had no entry
\* since: the key has had frames and has no entry
Emitted(key) == HasKey(epoch, key) /\ ~HasKey(imageAssemblers, key)

(* C16 (emission and removal are atomic): the step that writes the image   *)
(* of key K removes the entry of K, and from then on K gets an entry only  *)
(* in a step that hands the handler a frame of K with chunk index 0.       *)
C16_NoEntryUntilChunkZero ==
    [][/\ EmissionRemoves
       /\ \A key \in ImageKeys :
              (Emitted(key) /\ HasKey(imageAssemblers', key)) => ImageFrameOf(key, {0})]_vars

(* C16 as the code has it: the step that writes the image of key K removes *)
(* the entry of K and no other step removes an entry; from then on K gets  *)
(* an entry in the next step that hands the handler a frame of K that does *)
(* not complete an image, whatever its chunk index (GetOrAdd), and in no   *)
(* other step.                                                             *)
C16_NoEntryUntilNextFrame ==
    [][/\ EmissionRemoves
       /\ RemovalEmits
       /\ \A key \in ImageKeys :
              (Emitted(key) /\ HasKey(imageAssemblers', key))
                  => ImageFrameOf(key, 0..(MaxFrameTotal - 1))
       /\ \A key \in ImageKeys :
              (Emitted(key) /\ ImageFrameOf(key, 0..(MaxFrameTotal - 1)))
                  => (HasKey(imageAssemblers', key) \/ imageFile' # NULL)]_vars

\* the image of cam_01 has just been written and its entry removed, and the
\* handler gives the key an entry again on a frame of cam_01 with chunk index 1
C16_Witness ==
    /\ imageFile # NULL
    /\ imageFile[1].CameraId = cam_01
    /\ Len(imageFile[1].bytes) = 2
    /\ ~HasKey(imageAssemblers, cam_01)
    /\ nsteps < MaxFrames
    /\ HasKey(ProcessImageChunk(ImageTransferService_createImagePacket(
                     [CameraId |-> cam_01, ChunkIndex |-> 1, TotalChunks |-> 2], <<1>>),
                 imageAssemblers).assemblers, cam_01)

----------------------------------------------------------------------------
(* The recordings of the connection, under SpecRecv. *)

RecordingIds == {rec_1, rec_2}

\* the step is a call of the video handler with a frame of recording id
\* whose action is one of actions
VideoFrameOf(actions, id) ==
    \E header \in RecvVidHeaders, payload \in RecvPayloads :
        /\ header.Action \in actions
        /\ header.RecordingId = id
        /\ lastKind' = "video"
        /\ session' = SessionAfter(header, payload)
        /\ VideoFrame(header, payload)

\* the sum of the lengths of the blobs of _blobs
BlobsLength(blobs) == Len(ConcatBlobs(blobs))

(* C17 (session byte count): in every state, for every recorder of the     *)
(* dictionary, TotalBytes equals the sum of the lengths of the blobs in    *)
(* its completed-blob map, duplicated and late frames included.            *)
C17_TotalBytesIsSum ==
    \A id \in DOMAIN videoRecorders :
        videoRecorders[id].TotalBytes = BlobsLength(videoRecorders[id].blobs)

\* recording rec_2 was handed the one frame of blob 1 twice: the blob map
\* holds one byte and TotalBytes is 2
C17_Witness ==
    /\ HasKey(videoRecorders, rec_2)
    /\ HasKey(session, rec_2)
    /\ Len(session[rec_2].frames) = 2
    /\ DOMAIN videoRecorders[rec_2].blobs = {1}
    /\ BlobsLength(videoRecorders[rec_2].blobs) = 1
    /\ videoRecorders[rec_2].TotalBytes = 2

(* C18 (unknown session): a data or stop frame whose recording id has no   *)
(* recorder in the dictionary, because it never started or was finalized,  *)
(* is dropped: the dictionary and every recorder in it stay as they were,  *)
(* no recorder is created, no file is written and no exception leaves the  *)
(* handler.                                                                *)
C18_UnknownSessionDropped ==
    [][\A id \in RecordingIds :
           (~HasKey(videoRecorders, id) /\ VideoFrameOf({ActionData, ActionStop}, id))
               => /\ videoRecorders' = videoRecorders
                  /\ imageAssemblers' = imageAssemblers
                  /\ videoFiles' = <<>>
                  /\ imageFile' = NULL
                  /\ ~escaped']_vars

\* a frame of rec_1 was dropped after rec_1 had been stopped, while rec_2
\* was recording
C18_Witness ==
    /\ lastKind = "video"
    /\ log = "none"
    /\ HasKey(session, rec_1)
    /\ session[rec_1].ended = "stop"
    /\ ~HasKey(videoRecorders, rec_1)
    /\ HasKey(videoRecorders, rec_2)

\* a frame of rec_1 was dropped before any start frame of rec_1, while rec_2
\* had a complete blob
C18_WitnessNeverStarted ==
    /\ lastKind = "video"
    /\ log = "none"
    /\ ~HasKey(session, rec_1)
    /\ ~HasKey(videoRecorders, rec_1)
    /\ HasKey(videoRecorders, rec_2)
    /\ DOMAIN videoRecorders[rec_2].blobs = {1}

(* C19 (stop transition): a stop frame for a recording id that has a       *)
(* recorder removes the recorder from the dictionary and calls Finalize on *)
(* it once, which writes at most one file; from then on, until a start     *)
(* frame for the id, the id has no recorder and every data or stop frame   *)
(* for it changes nothing and writes nothing.                              *)
C19_StopTransition ==
    [][\A id \in RecordingIds :
           /\ (HasKey(videoRecorders, id) /\ VideoFrameOf({ActionStop}, id))
                  => /\ videoRecorders' = Remove(videoRecorders, id)
                     /\ videoFiles' = VideoRecorder_Finalize(videoRecorders[id]).files
                     /\ Len(videoFiles') <= 1
           /\ (HasKey(session', id) /\ session'[id].ended = "stop")
                  => ~HasKey(videoRecorders', id)
           /\ (/\ HasKey(session, id)
               /\ session[id].ended = "stop"
               /\ VideoFrameOf({ActionData, ActionStop}, id))
                  => /\ videoRecorders' = videoRecorders
                     /\ videoFiles' = <<>>
                     /\ ~escaped']_vars

\* the stop frame of rec_1 has written the file of its two-chunk blob and
\* removed the recorder
C19_Witness ==
    /\ lastKind = "video"
    /\ log = "saved"
    /\ Len(videoFiles) = 1
    /\ Len(videoFiles[1].bytes) = 2
    /\ HasKey(session, rec_1)
    /\ session[rec_1].ended = "stop"
    /\ Len(session[rec_1].frames) = 2
    /\ ~HasKey(videoRecorders, rec_1)

\* a frame of rec_1 that came after the stop frame of rec_1 was dropped
C19_WitnessLater ==
    /\ lastKind = "video"
    /\ log = "none"
    /\ videoFiles = <<>>
    /\ HasKey(session, rec_1)
    /\ session[rec_1].ended = "stop"
    /\ Len(session[rec_1].frames) = 1
    /\ ~HasKey(videoRecorders, rec_1)

\* the recorder that AddChunk calls with the given frames, in order, make
\* of rec
RECURSIVE Replay(_, _)
Replay(rec, frames) ==
    IF frames = <<>> THEN rec
    ELSE Replay(VideoRecorder_AddChunk(rec, Head(frames).header.BlobIndex,
                                       Head(frames).header.ChunkIndex,
                                       Head(frames).header.TotalChunks,
                                       Head(frames).payload),
                Tail(frames))

\* the recorder of id holds what the data frames since the last start frame
\* of id put into a new recorder, and nothing else
HoldsFramesSinceStart(id, rec, s) ==
    /\ rec.cameraId = s.start.CameraId
    /\ rec.mimeType = s.start.MimeType
    /\ rec = Replay([recordingId |-> id, cameraId |-> s.start.CameraId,
                     mimeType |-> s.start.MimeType, blobs |-> EmptyMap,
                     blobAssemblers |-> EmptyMap, TotalBytes |-> 0], s.frames)

(* C20 (last start wins): a start frame for a recording id that has a      *)
(* recorder puts a new recorder in its place, with no complete blob, no    *)
(* blob in progress and the camera id and MIME type of the new start       *)
(* frame, writes no file and leaves the other recorders alone; a running   *)
(* recorder holds the data frames that came after its last start frame and *)
(* nothing of the frames before it.                                        *)
C20_LastStartWins ==
    [][/\ \A header \in RecvVidHeaders :
              (/\ header.Action = ActionStart
               /\ HasKey(videoRecorders, header.RecordingId)
               /\ lastKind' = "video"
               /\ session' = SessionAfter(header, <<>>)
               /\ \E payload \in RecvPayloads : VideoFrame(header, payload))
                  => /\ DOMAIN videoRecorders' = DOMAIN videoRecorders
                     /\ DOMAIN videoRecorders'[header.RecordingId].blobs = {}
                     /\ DOMAIN videoRecorders'[header.RecordingId].blobAssemblers = {}
                     /\ videoRecorders'[header.RecordingId].TotalBytes = 0
                     /\ videoRecorders'[header.RecordingId].cameraId = header.CameraId
                     /\ videoRecorders'[header.RecordingId].mimeType = header.MimeType
                     /\ \A id \in DOMAIN videoRecorders \ {header.RecordingId} :
                            videoRecorders'[id] = videoRecorders[id]
                     /\ videoFiles' = <<>>
       /\ \A id \in DOMAIN session' :
              session'[id].ended = "no"
                  => /\ HasKey(videoRecorders', id)
                     /\ HoldsFramesSinceStart(id, videoRecorders'[id], session'[id])]_vars

\* rec_1 was started for camera_01, got chunk 0 of its blob, was started
\* again for camera_front_left_01 and got chunk 1: the recorder holds chunk
\* 1 alone
C20_Witness ==
    /\ lastKind = "video"
    /\ HasKey(session, rec_1)
    /\ session[rec_1].ended = "no"
    /\ session[rec_1].lost # NULL
    /\ Len(session[rec_1].lost[1]) = 1
    /\ session[rec_1].lost[1][1].header.ChunkIndex = 0
    /\ Len(session[rec_1].frames) = 1
    /\ session[rec_1].frames[1].header.ChunkIndex = 1
    /\ HasKey(videoRecorders, rec_1)
    /\ videoRecorders[rec_1].cameraId = camera_front_left_01
    /\ videoRecorders[rec_1].mimeType = video_webm
    /\ DOMAIN videoRecorders[rec_1].blobAssemblers = {0}
    /\ videoRecorders[rec_1].blobAssemblers[0].received = 1

----------------------------------------------------------------------------
(* The close of the video channel and Finalize, under SpecRecv. *)

\* the recorders of the dictionary that hold a complete blob
WithBlobs(recorders) == {id \in DOMAIN recorders : DOMAIN recorders[id].blobs # {}}

\* the files hold, for every recorder of the dictionary with a complete
\* blob, one file with its complete blobs, and nothing else
FilesOfAll(files, recorders) ==
    /\ Len(files) = Cardinality(WithBlobs(recorders))
    /\ \A id \in WithBlobs(recorders) :
           \E k \in 1..Len(files) : files[k].bytes = ConcatBlobs(recorders[id].blobs)

(* C21 (forced teardown): when the video channel closes, every recorder of *)
(* the dictionary is finalized with the blobs that are complete at that    *)
(* moment, and when the close handler is done the dictionary is empty.     *)
C21_ForcedTeardown ==
    [][lastKind' = "close" =>
           /\ FilesOfAll(videoFiles', videoRecorders)
           /\ videoRecorders' = EmptyMap]_vars

\* the channel closed while rec_2 of camera cam_01 held its complete blob:
\* the exception of Finalize left the close handler, no file was written and
\* the recorder is still in the dictionary
C21_Witness ==
    /\ lastKind = "close"
    /\ escaped
    /\ videoFiles = <<>>
    /\ HasKey(session, rec_2)
    /\ session[rec_2].ended = "close"
    /\ HasKey(videoRecorders, rec_2)
    /\ DOMAIN videoRecorders[rec_2].blobs = {1}

(* C22 (Finalize without a complete blob): Finalize on a recorder that has *)
(* no complete blob, whatever its camera id and its blobs in progress,     *)
(* writes no file and raises nothing, every time it is called; a stop      *)
(* frame for such a recorder and the close of a channel whose recorders    *)
(* are all such write nothing and let no exception out.                    *)
C22_FinalizeNothingToSave ==
    [][/\ \A id \in DOMAIN videoRecorders' :
              DOMAIN videoRecorders'[id].blobs = {}
                  => VideoRecorder_Finalize(videoRecorders'[id])
                         = Finalized(<<>>, "no_data", "none")
       /\ \A id \in RecordingIds :
              (/\ HasKey(videoRecorders, id)
               /\ DOMAIN videoRecorders[id].blobs = {}
               /\ VideoFrameOf({ActionStop}, id))
                  => /\ videoFiles' = <<>>
                     /\ log' = "no_data"
                     /\ ~escaped'
       /\ (lastKind' = "close" /\ WithBlobs(videoRecorders) = {})
              => /\ videoFiles' = <<>>
                 /\ ~escaped'
                 /\ videoRecorders' = EmptyMap]_vars

\* rec_1 was stopped with chunk 0 of its two-chunk blob alone: nothing was
\* written
C22_Witness ==
    /\ lastKind = "video"
    /\ log = "no_data"
    /\ videoFiles = <<>>
    /\ ~escaped
    /\ HasKey(session, rec_1)
    /\ session[rec_1].ended = "stop"
    /\ Len(session[rec_1].frames) = 1

\* rec_2 of camera cam_01, whose id is shorter than the 8 characters of the
\* file name, was stopped directly after its start
C22_WitnessShortCameraId ==
    /\ lastKind = "video"
    /\ log = "no_data"
    /\ ~escaped
    /\ HasKey(session, rec_2)
    /\ session[rec_2].ended = "stop"
    /\ session[rec_2].frames = <<>>

----------------------------------------------------------------------------
(* Specification SpecImgPair: the frames WebRtcService cuts from two       *)
(* images of different cameras, handed to ProcessImageChunk in any         *)
(* interleaving that keeps the frames of each image in ascending order.    *)

\* longest image of the pair, in bytes
MaxPairLen == 2

PairKeys == {cam_01, cam_02}

\* the frames of the image of a key: the key with each chunk index
FramesOfKey(key, bytes, size) ==
    {<<key, i>> : i \in 0..(TotalChunksOf(Len(bytes), size) - 1)}

InitImgPair ==
    /\ srcBytes \in [PairKeys -> SeqsUpTo(Bytes, MaxPairLen)]
    /\ chunkSize \in 1..MaxChunk
    /\ todo = UNION {FramesOfKey(key, srcBytes[key], chunkSize) : key \in PairKeys}
    /\ order = <<>>
    /\ imageAssemblers \in {EmptyMap, StaleAssemblers}
    /\ savedImages = <<>>
    /\ UnitIdle /\ VidIdle /\ OutIdle /\ EnvIdle /\ VrtIdle /\ SndIdle

\* the next frame of the image of key is handed to the handler
DeliverPairFrame(key, i) ==
    /\ <<key, i>> \in todo
    /\ \A j \in 0..(i - 1) : <<key, j>> \notin todo
    /\ ImageMessage(ImagePacketOf(key, srcBytes[key], chunkSize, i))
    /\ todo' = todo \ {<<key, i>>}
    /\ order' = Append(order, <<key, i>>)
    /\ savedImages' = savedImages \o imageFile'
    /\ UNCHANGED <<unitVars, srcBytes, chunkSize, envVars, vrtVars, sndVars>>

NextImgPair == \E key \in PairKeys, i \in 0..(MaxPairLen - 1) : DeliverPairFrame(key, i)

SpecImgPair == InitImgPair /\ [][NextImgPair]_vars

\* the images saved for a key, oldest first
RECURSIVE SavedFor(_, _)
SavedFor(key, images) ==
    IF images = <<>> THEN <<>>
    ELSE (IF Head(images).CameraId = key THEN <<Head(images).bytes>> ELSE <<>>)
             \o SavedFor(key, Tail(images))

\* the entry of a key in the dictionary, null if it has none
EntryOf(assemblers, key) == IF HasKey(assemblers, key) THEN Some(assemblers[key]) ELSE NULL

(* C23 (key independence for images): a call of ProcessImageChunk with a   *)
(* frame of key K leaves the reassembler of every other key as it was, and *)
(* when the frames of two images of different keys have been handed over   *)
(* in any interleaving, each image in ascending order, one image has been  *)
(* saved for each key, with the bytes of its own source (an image of zero  *)
(* bytes has no frame and nothing is saved for it).                        *)
C23_KeyIndependence ==
    [][/\ \A key \in PairKeys :
              order'[Len(order')][1] # key
                  => EntryOf(imageAssemblers', key) = EntryOf(imageAssemblers, key)
       /\ todo' = {} =>
              \A key \in PairKeys :
                  SavedFor(key, savedImages')
                      = IF Len(srcBytes[key]) > 0 THEN <<srcBytes[key]>> ELSE <<>>]_vars

\* the frames of two two-chunk images with different bytes were handed over
\* alternately and both images were saved, each with its own bytes
C23_Witness ==
    /\ todo = {}
    /\ chunkSize = 1
    /\ order = << <<cam_01, 0>>, <<cam_02, 0>>, <<cam_01, 1>>, <<cam_02, 1>> >>
    /\ srcBytes[cam_01] = <<0, 1>>
    /\ srcBytes[cam_02] = <<1, 0>>
    /\ SavedFor(cam_01, savedImages) = << <<0, 1>> >>
    /\ SavedFor(cam_02, savedImages) = << <<1, 0>> >>

----------------------------------------------------------------------------
(* Specification SpecBlobPair: two recordings on one video channel, rec_1  *)
(* with the recorder blobs 0 and 1 and rec_2 with a blob 0 of its own. The *)
(* start signals arrive in any order, and the data frames of a recording   *)
(* arrive after its start signal, in any order and any interleaving, each  *)
(* once.                                                                   *)

PairBlobs == {<<rec_1, 0>>, <<rec_1, 1>>, <<rec_2, 0>>}

\* the label of the bytes of a blob of the pair of recordings
PairLabel(blob) == IF blob[1] = rec_2 THEN 2 ELSE blob[2]

\* the frames of a blob: recording id, blob index, chunk index
FramesOfBlob(blob, bytes, size) ==
    {<<blob[1], blob[2], i>> : i \in 0..(TotalChunksOf(Len(bytes), size) - 1)}

InitBlobPair ==
    /\ \E length \in [PairBlobs -> 1..MaxBlobLen] :
           srcBlobs = [blob \in PairBlobs |-> LabelledBlob(PairLabel(blob), length[blob])]
    /\ chunkSize \in 1..MaxBlobLen
    /\ recCamera = camera_01
    /\ todo = UNION {FramesOfBlob(blob, srcBlobs[blob], chunkSize) : blob \in PairBlobs}
    /\ phase = "new"
    /\ done = <<>>
    /\ srcBytes = <<>> /\ order = <<>> /\ savedImages = <<>>
    /\ UnitIdle /\ ImgIdle /\ VidIdle /\ OutIdle /\ EnvIdle /\ SndIdle

DeliverPairStart(id) ==
    /\ ~HasKey(videoRecorders, id)
    /\ VideoMessage(VideoRecordingService_signalPacket(ActionStart, id, recCamera, video_webm))
    /\ phase' = "recording"
    /\ UNCHANGED <<unitVars, rtVars, envVars, srcBlobs, recCamera, done, sndVars>>

DeliverBlobFrame(id, b, i) ==
    /\ HasKey(videoRecorders, id)
    /\ <<id, b, i>> \in todo
    /\ VideoMessage(VideoPacketOf(id, recCamera, video_webm, srcBlobs[<<id, b>>], b,
                                  chunkSize, i))
    /\ todo' = todo \ {<<id, b, i>>}
    /\ UNCHANGED <<unitVars, srcBytes, chunkSize, order, savedImages, envVars, srcBlobs,
                   recCamera, phase, done, sndVars>>

NextBlobPair ==
    \/ \E id \in RecordingIds : DeliverPairStart(id)
    \/ \E f \in todo : DeliverBlobFrame(f[1], f[2], f[3])

SpecBlobPair == InitBlobPair /\ [][NextBlobPair]_vars

\* the chunk indexes of a blob that have been handed over
Delivered(blob, frames) ==
    {i \in 0..(TotalChunksOf(Len(srcBlobs[blob]), chunkSize) - 1) :
         <<blob[1], blob[2], i>> \notin frames}

\* the blob of a recorder under an index: its bytes when complete, its
\* reassembler when in progress
BlobStateOf(rec, b) ==
    [blob |-> IF HasKey(rec.blobs, b) THEN Some(rec.blobs[b]) ELSE NULL,
     assembler |-> IF HasKey(rec.blobAssemblers, b) THEN Some(rec.blobAssemblers[b])
                   ELSE NULL]

\* what a recorder holds of a blob of which the chunks of indexes were
\* handed over: nothing before the first chunk, a reassembler with these
\* chunks of the blob in their slots while one is missing, the bytes of the
\* blob afterwards
BlobStateFrom(blob, indexes) ==
    LET total == TotalChunksOf(Len(srcBlobs[blob]), chunkSize)
    IN  IF indexes = {} THEN [blob |-> NULL, assembler |-> NULL]
        ELSE IF indexes = 0..(total - 1)
        THEN [blob |-> Some(srcBlobs[blob]), assembler |-> NULL]
        ELSE [blob |-> NULL,
              assembler |-> Some([total |-> total,
                                  chunks |-> [i \in 0..(total - 1) |->
                                                 IF i \in indexes
                                                 THEN Some(ChunkOf(srcBlobs[blob], i,
                                                                   chunkSize))
                                                 ELSE NULL],
                                  received |-> Cardinality(indexes)])]

(* C24 (per-blob independence for video): a data frame of blob b of a      *)
(* recording leaves the other blobs of the recording, in progress or       *)
(* complete, and the recorders of the other recordings as they were; under *)
(* every interleaving of the data frames each blob is put together from    *)
(* its own chunks alone and, once its last chunk has come, is in the       *)
(* completed-blob map of its recording with its own bytes.                 *)
C24_BlobIndependence ==
    [][/\ \A f \in todo \ todo' :
              /\ \A id \in DOMAIN videoRecorders \ {f[1]} :
                     /\ HasKey(videoRecorders', id)
                     /\ videoRecorders'[id] = videoRecorders[id]
              /\ \A b \in {0, 1} \ {f[2]} :
                     BlobStateOf(videoRecorders'[f[1]], b)
                         = BlobStateOf(videoRecorders[f[1]], b)
       /\ \A blob \in PairBlobs :
              HasKey(videoRecorders', blob[1])
                  => BlobStateOf(videoRecorders'[blob[1]], blob[2])
                         = BlobStateFrom(blob, Delivered(blob, todo'))]_vars

\* the frames of the two-chunk blobs 0 and 1 of rec_1 were handed over
\* alternately, blob 1 first, while rec_2 held chunk 1 of its own blob 0
C24_Witness ==
    /\ chunkSize = 1
    /\ HasKey(videoRecorders, rec_1)
    /\ HasKey(videoRecorders, rec_2)
    /\ Delivered(<<rec_1, 0>>, todo) = {0, 1}
    /\ Delivered(<<rec_1, 1>>, todo) = {0, 1}
    /\ Delivered(<<rec_2, 0>>, todo) = {1}
    /\ DOMAIN videoRecorders[rec_1].blobs = {0, 1}
    /\ videoRecorders[rec_1].blobs[0] = LabelledBlob(0, 2)
    /\ videoRecorders[rec_1].blobs[1] = LabelledBlob(1, 2)
    /\ DOMAIN videoRecorders[rec_2].blobs = {}
    /\ videoRecorders[rec_2].blobAssemblers[0].chunks[1] = Some(<<34>>)

----------------------------------------------------------------------------
(* Reassemblers that never complete, under SpecImg. *)

\* the slots of a reassembler that hold no chunk
MissingSlots(a) == {i \in 0..(a.total - 1) : a.chunks[i] = NULL}

(* C25 (a stalled asset never emits): an image is written for key K only   *)
(* in a step that hands the handler a frame of K, and only when a chunk    *)
(* has been stored for every index below the totalChunks of the            *)
(* reassembler in use for K; every reassembler in the dictionary lacks a   *)
(* chunk, and it stays in the dictionary as it is, with no image written   *)
(* for its key, through every step that is not a frame of its key; a       *)
(* frame of its key that does not complete it either leaves its slots      *)
(* filled or, with chunk index 0, replaces it.                             *)
C25_StalledNeverEmits ==
    [][/\ imageFile' # NULL =>
              /\ ImageFrameOf(imageFile'[1].CameraId, 0..(MaxFrameTotal - 1))
              /\ \A i \in 0..(epoch'[imageFile'[1].CameraId].total - 1) :
                     HasKey(epoch'[imageFile'[1].CameraId].got, i)
       /\ \A key \in DOMAIN imageAssemblers' : MissingSlots(imageAssemblers'[key]) # {}
       /\ \A key \in DOMAIN imageAssemblers :
              \/ /\ HasKey(imageAssemblers', key)
                 /\ imageAssemblers'[key].total = imageAssemblers[key].total
                 /\ MissingSlots(imageAssemblers'[key]) \subseteq MissingSlots(imageAssemblers[key])
                 /\ \/ imageAssemblers'[key] = imageAssemblers[key]
                    \/ ImageFrameOf(key, 1..(MaxFrameTotal - 1))
                 /\ imageFile' = NULL \/ imageFile'[1].CameraId # key
              \/ ImageFrameOf(key, {0})
              \/ /\ imageFile' # NULL
                 /\ imageFile'[1].CameraId = key
                 /\ ~HasKey(imageAssemblers', key)]_vars

\* the reassembler of cam_01 has held chunks 0 and 1 of 3 through a frame
\* of cam_02 and a message that is no frame, and nothing was written
C25_Witness ==
    /\ nsteps = 4
    /\ lastKind = "malformed_image"
    /\ imageFile = NULL
    /\ HasKey(imageAssemblers, cam_02)
    /\ HasKey(imageAssemblers, cam_01)
    /\ imageAssemblers[cam_01].total = 3
    /\ MissingSlots(imageAssemblers[cam_01]) = {2}

----------------------------------------------------------------------------
(* Specification SpecCodec: a header and a payload are made into a frame   *)
(* by the sender (createImagePacket, sendSingleVideoPacket); the frame, or *)
(* a piece of it shorter than the header region, is decoded as the         *)
(* receiver's handlers decode it.                                          *)

\* longest payload of the codec runs, in bytes
MaxPayload == 2

\* a camera id of 18 characters: with one-digit numbers the JSON text of the
\* image header is exactly 64 bytes long
id_18 == [i \in 1..18 |-> 97]

CodecImageHeaders == [CameraId : {cam_01, id_18}, ChunkIndex : {0, 10}, TotalChunks : {1, 12}]

CodecVideoHeaders ==
    { VideoSignalHeader(ActionStart, rec_1, camera_01, video_webm),
      [Action |-> ActionData, RecordingId |-> rec_2, CameraId |-> cam_01,
       MimeType |-> video_mp4, ChunkIndex |-> 1, TotalChunks |-> 12, BlobIndex |-> 3],
      LongVideoHeader }

HeaderSizeOf(kind) == IF kind = "image" THEN ImageHeaderSize ELSE VideoHeaderSize

\* JSON.stringify(header)
StringifyOf(kind, header) ==
    IF kind = "image" THEN StringifyChunkHeader(header) ELSE StringifyVideoChunkHeader(header)

\* the sender's frame of a header and a payload
EncodeFrame(kind, header, payload) ==
    IF kind = "image" THEN ImageTransferService_createImagePacket(header, payload)
    ELSE VideoRecordingService_videoPacket(header, payload)

Decoded(parsed, payload) ==
    IF parsed.kind = "ok" THEN [kind |-> "ok", header |-> parsed.header, payload |-> payload]
    ELSE [kind |-> parsed.kind]

\* the receiver's reading of a message: the length check, the header region
\* trimmed and parsed, the rest as payload
DecodeFrame(kind, data) ==
    IF Len(data) < HeaderSizeOf(kind) THEN [kind |-> "too_small"]
    ELSE IF kind = "image"
    THEN Decoded(DeserializeChunkHeader(ImageHeaderJson(data)), ImageChunkData(data))
    ELSE Decoded(DeserializeVideoChunkHeader(VideoHeaderJson(data)), VideoChunkData(data))

InitCodec ==
    /\ \E kind \in {"image", "video"} :
           \E header \in IF kind = "image" THEN CodecImageHeaders ELSE CodecVideoHeaders :
               \E payload \in SeqsUpTo(Bytes, MaxPayload) :
                   codec = Some([kind |-> kind, header |-> header, payload |-> payload,
                                 frame |-> NULL, cut |-> FALSE, decoded |-> NULL])
    /\ AsmIdle /\ conc = NULL
    /\ RtIdle /\ ImgIdle /\ VidIdle /\ OutIdle /\ EnvIdle /\ VrtIdle /\ SndIdle

CodecStep(next) ==
    /\ codec' = Some(next)
    /\ UNCHANGED <<asmKind, asm, recent, threw, conc, rtVars, imgVars, vidVars, outVars, envVars,
                   vrtVars, sndVars>>

Encode ==
    /\ codec[1].frame = NULL
    /\ CodecStep([codec[1] EXCEPT
                      !.frame = Some(EncodeFrame(codec[1].kind, codec[1].header,
                                                 codec[1].payload))])

\* the message that arrives is the first n bytes of the frame
CutFrame(n) ==
    /\ codec[1].frame # NULL
    /\ codec[1].decoded = NULL
    /\ ~codec[1].cut
    /\ n < HeaderSizeOf(codec[1].kind)
    /\ CodecStep([codec[1] EXCEPT !.frame = Some(SubSeq(codec[1].frame[1], 1, n)),
                                  !.cut = TRUE])

Decode ==
    /\ codec[1].frame # NULL
    /\ codec[1].decoded = NULL
    /\ CodecStep([codec[1] EXCEPT
                      !.decoded = Some(DecodeFrame(codec[1].kind, codec[1].frame[1]))])

NextCodec ==
    \/ Encode
    \/ \E n \in {0, ImageHeaderSize - 1, VideoHeaderSize - 1} : CutFrame(n)
    \/ Decode

SpecCodec == InitCodec /\ [][NextCodec]_vars

\* the JSON text of the header fits the header region
HeaderFits(c) == Len(StringifyOf(c.kind, c.header)) <= HeaderSizeOf(c.kind)

(* C26 (frame codec round-trip): for every header whose JSON text fits the *)
(* header region and every payload, the empty one included, the receiver   *)
(* reads from the sender's frame that header and that payload; the frame   *)
(* is the header region followed by the payload, so a frame of exactly the *)
(* header size has an empty payload; a message shorter than the header     *)
(* region is rejected.                                                     *)
C26_CodecRoundTrip ==
    \A c \in {codec[k] : k \in 1..Len(codec)} :
        /\ (c.frame # NULL /\ ~c.cut /\ HeaderFits(c))
               => Len(c.frame[1]) = HeaderSizeOf(c.kind) + Len(c.payload)
        /\ c.decoded # NULL =>
               /\ (~c.cut /\ HeaderFits(c))
                      => c.decoded[1] = [kind |-> "ok", header |-> c.header,
                                         payload |-> c.payload]
               /\ (~c.cut /\ HeaderFits(c) /\ Len(c.frame[1]) = HeaderSizeOf(c.kind))
                      => c.decoded[1].payload = <<>>
               /\ Len(c.frame[1]) < HeaderSizeOf(c.kind) => c.decoded[1].kind = "too_small"

\* an image header whose JSON text fills the 64 bytes of the header region,
\* followed by a payload of two zero bytes, was read back as sent
C26_Witness ==
    /\ codec # NULL
    /\ codec[1].kind = "image"
    /\ Len(StringifyChunkHeader(codec[1].header)) = ImageHeaderSize
    /\ codec[1].payload = <<0, 0>>
    /\ codec[1].decoded # NULL
    /\ codec[1].decoded[1].kind = "ok"
    /\ codec[1].decoded[1].payload = <<0, 0>>

\* a video frame of 256 bytes was read as a header with an empty payload
C26_WitnessEmptyPayload ==
    /\ codec # NULL
    /\ codec[1].kind = "video"
    /\ codec[1].frame # NULL
    /\ Len(codec[1].frame[1]) = VideoHeaderSize
    /\ codec[1].decoded # NULL
    /\ codec[1].decoded[1].kind = "ok"
    /\ codec[1].decoded[1].payload = <<>>

\* the first 63 bytes of an image frame were rejected
C26_WitnessTooShort ==
    /\ codec # NULL
    /\ codec[1].kind = "image"
    /\ codec[1].cut
    /\ Len(codec[1].frame[1]) = ImageHeaderSize - 1
    /\ codec[1].decoded # NULL
    /\ codec[1].decoded[1].kind = "too_small"

----------------------------------------------------------------------------
(* Specification SpecThreads: the host hands two frames of the same camera *)
(* to ProcessImageChunk on two threads. The dictionary is a                *)
(* ConcurrentDictionary, whose calls are atomic; the fields of an          *)
(* ImageAssembler are read and written without a lock, so a thread's       *)
(* reads and writes of _chunks and _receivedCount interleave with the      *)
(* other thread's. The parsing of the frame touches no shared state.       *)

\* largest TotalChunks of the frames of the two threads
MaxRaceTotal == 2

ThreadIds == {1, 2}

\* thread t has the frame (cam_01, index, total) with the payload <<t>>
ThreadOf(t, index, total) ==
    [ChunkIndex |-> index, TotalChunks |-> total, payload |-> <<t>>,
     pc |-> "GetOrAdd", assembler |-> 0, count |-> 0]

InitThreads ==
    /\ \E index \in [ThreadIds -> 0..(MaxRaceTotal - 1)], total \in [ThreadIds -> 1..MaxRaceTotal] :
           conc = Some([heap |-> <<>>, entry |-> 0,
                        threads |-> [t \in ThreadIds |-> ThreadOf(t, index[t], total[t])],
                        saved |-> <<>>])
    /\ AsmIdle /\ codec = NULL
    /\ RtIdle /\ ImgIdle /\ VidIdle /\ OutIdle /\ EnvIdle /\ VrtIdle /\ SndIdle

ThreadStep(next) ==
    /\ conc' = Some(next)
    /\ UNCHANGED <<asmKind, asm, recent, threw, codec, rtVars, imgVars, vidVars, outVars,
                   envVars, vrtVars, sndVars>>

At(t, pc) == conc # NULL /\ conc[1].threads[t].pc = pc

\* the thread moves on to pc
Goto(c, t, pc) == [c EXCEPT !.threads[t].pc = pc]

\* new ImageAssembler(totalChunks) put under the key; the object's number
WithNewEntry(c, total) ==
    [c EXCEPT !.heap = Append(@, ImageAssembler(total)), !.entry = Len(c.heap) + 1]

\* line 235: assemblers.GetOrAdd(header.CameraId, _ => new ImageAssembler(..))
Thread_GetOrAdd(t) ==
    /\ At(t, "GetOrAdd")
    /\ \E c \in {IF conc[1].entry = 0
                  THEN WithNewEntry(conc[1], conc[1].threads[t].TotalChunks)
                  ELSE conc[1]} :
           ThreadStep(Goto([c EXCEPT !.threads[t].assembler = c.entry], t,
                           IF c.threads[t].ChunkIndex = 0 THEN "Reset" ELSE "AddChunk"))

\* line 240: assemblers[header.CameraId] = new ImageAssembler(..)
Thread_Reset(t) ==
    /\ At(t, "Reset")
    /\ ThreadStep(Goto(WithNewEntry(conc[1], conc[1].threads[t].TotalChunks), t, "Reread"))

\* line 241: assembler = assemblers[header.CameraId]; KeyNotFoundException,
\* caught at the end of the handler, when the key has been removed
Thread_Reread(t) ==
    /\ At(t, "Reread")
    /\ ThreadStep(IF conc[1].entry = 0 THEN Goto(conc[1], t, "done")
                  ELSE Goto([conc[1] EXCEPT !.threads[t].assembler = conc[1].entry], t,
                            "AddChunk"))

\* AddChunk: the range guard and the test _chunks[index] is null
Thread_AddChunk(t) ==
    /\ At(t, "AddChunk")
    /\ LET th == conc[1].threads[t]
           a == conc[1].heap[th.assembler]
       IN  ThreadStep(Goto(conc[1], t,
                           IF ImageAssembler_OutOfRange(a, th.ChunkIndex) THEN "IsComplete"
                           ELSE IF a.chunks[th.ChunkIndex] = NULL THEN "Store"
                           ELSE "IsComplete"))

\* AddChunk: _chunks[index] = data
Thread_Store(t) ==
    /\ At(t, "Store")
    /\ LET th == conc[1].threads[t]
       IN  ThreadStep(Goto([conc[1] EXCEPT
                                !.heap[th.assembler].chunks[th.ChunkIndex] = Some(th.payload)],
                           t, "ReadCount"))

\* AddChunk: _receivedCount++, the read
Thread_ReadCount(t) ==
    /\ At(t, "ReadCount")
    /\ LET th == conc[1].threads[t]
       IN  ThreadStep(Goto([conc[1] EXCEPT
                                !.threads[t].count = conc[1].heap[th.assembler].received],
                           t, "WriteCount"))

\* AddChunk: _receivedCount++, the write
Thread_WriteCount(t) ==
    /\ At(t, "WriteCount")
    /\ LET th == conc[1].threads[t]
       IN  ThreadStep(Goto([conc[1] EXCEPT !.heap[th.assembler].received = th.count + 1],
                           t, "IsComplete"))

\* line 247: if (assembler.IsComplete)
Thread_IsComplete(t) ==
    /\ At(t, "IsComplete")
    /\ LET th == conc[1].threads[t]
       IN  ThreadStep(Goto(conc[1], t,
                           IF ImageAssembler_IsComplete(conc[1].heap[th.assembler])
                           THEN "Save" ELSE "done"))

\* lines 249-257: GetCompleteImage and SaveImage; the image is recorded with
\* the slots that held no chunk when it was put together
Thread_Save(t) ==
    /\ At(t, "Save")
    /\ LET a == conc[1].heap[conc[1].threads[t].assembler]
       IN  ThreadStep(Goto([conc[1] EXCEPT
                                !.saved = Append(@, [bytes |-> ImageAssembler_GetCompleteImage(a),
                                                     missing |-> MissingSlots(a)])],
                           t, "TryRemove"))

\* line 258: assemblers.TryRemove(header.CameraId, out _)
Thread_TryRemove(t) ==
    /\ At(t, "TryRemove")
    /\ ThreadStep(Goto([conc[1] EXCEPT !.entry = 0], t, "done"))

NextThreads ==
    \E t \in ThreadIds :
        \/ Thread_GetOrAdd(t)
        \/ Thread_Reset(t)
        \/ Thread_Reread(t)
        \/ Thread_AddChunk(t)
        \/ Thread_Store(t)
        \/ Thread_ReadCount(t)
        \/ Thread_WriteCount(t)
        \/ Thread_IsComplete(t)
        \/ Thread_Save(t)
        \/ Thread_TryRemove(t)

SpecThreads == InitThreads /\ [][NextThreads]_vars

\* the part of AddChunk between the test of the slot and the write of the
\* counter
InAddChunk(th) == th.pc \in {"Store", "ReadCount", "WriteCount"}

(* C27 (single-writer discipline): with two frames of the same key on two  *)
(* threads, the test and fill of a slot and the increment of the counter   *)
(* of one reassembler are never under way on both threads at once; when no *)
(* thread is inside AddChunk the counter of every reassembler is the       *)
(* number of its filled slots; and no image is put together from a         *)
(* reassembler with an empty slot.                                         *)
C27_SingleWriter ==
    \A c \in {conc[k] : k \in 1..Len(conc)} :
        /\ \A t, u \in ThreadIds :
               (t # u /\ InAddChunk(c.threads[t]) /\ InAddChunk(c.threads[u]))
                   => c.threads[t].assembler # c.threads[u].assembler
        /\ (\A t \in ThreadIds : ~InAddChunk(c.threads[t]))
               => \A o \in 1..Len(c.heap) :
                      c.heap[o].received = Cardinality(FilledSlots(c.heap[o]))
        /\ \A k \in 1..Len(c.saved) : c.saved[k].missing = {}

\* both threads had the frame with chunk 1 of 2: both found the slot empty
\* and both counted it, and an image of one byte was written from a
\* reassembler whose slot 0 is empty
C27_Witness ==
    /\ conc # NULL
    /\ \A t \in ThreadIds :
           /\ conc[1].threads[t].ChunkIndex = 1
           /\ conc[1].threads[t].TotalChunks = 2
           /\ conc[1].threads[t].pc = "done"
    /\ Len(conc[1].heap) = 1
    /\ conc[1].heap[1].received = 2
    /\ FilledSlots(conc[1].heap[1]) = {1}
    /\ \E k \in 1..Len(conc[1].saved) :
           /\ conc[1].saved[k].missing = {0}
           /\ Len(conc[1].saved[k].bytes) = 1

----------------------------------------------------------------------------
(* The completion of a blob, under SpecRecv. *)

\* the step hands the handler a data frame of recording id, which is
\* running
DataFrameStep(id) ==
    /\ HasKey(videoRecorders, id)
    /\ HasKey(session, id)
    /\ session[id].ended = "no"
    /\ Len(session'[id].frames) = Len(session[id].frames) + 1

LastFrame(id) == session'[id].frames[Len(session'[id].frames)]

\* the reassembler the frame is added to: the one in progress for its blob
\* index or a new one of the frame's TotalChunks
AssemblerBefore(rec, header) ==
    IF HasKey(rec.blobAssemblers, header.BlobIndex) THEN rec.blobAssemblers[header.BlobIndex]
    ELSE BlobAssembler(header.TotalChunks)

\* a data frame that fills the last empty slot of its blob puts the bytes
\* of the slots, in order, into the completed-blob map and removes the
\* reassembler; any other data frame leaves a reassembler for its blob index
\* and the completed-blob map as it was
CompletionStep(id) ==
    LET header == LastFrame(id).header
        before == AssemblerBefore(videoRecorders[id], header)
    IN  IF MissingSlots(before) = {header.ChunkIndex}
        THEN /\ HasKey(videoRecorders'[id].blobs, header.BlobIndex)
             /\ videoRecorders'[id].blobs[header.BlobIndex]
                    = ConcatSlots([before.chunks EXCEPT
                                       ![header.ChunkIndex] = Some(LastFrame(id).payload)],
                                  before.total)
             /\ ~HasKey(videoRecorders'[id].blobAssemblers, header.BlobIndex)
        ELSE /\ HasKey(videoRecorders'[id].blobAssemblers, header.BlobIndex)
             /\ videoRecorders'[id].blobs = videoRecorders[id].blobs

\* the blob indexes of a recorder that are in the completed-blob map and
\* have a reassembler as well
InBoth(rec) == DOMAIN rec.blobs \cap DOMAIN rec.blobAssemblers

\* frames were handed over for blob index b after b had completed
FramesAfterCompletion(id, s, b) ==
    \E k \in 1..(Len(s.frames) - 1) :
        /\ HasKey(Replay(VideoRecorder(id, s.start.CameraId, s.start.MimeType),
                         SubSeq(s.frames, 1, k)).blobs, b)
        /\ \E j \in (k + 1)..Len(s.frames) : s.frames[j].header.BlobIndex = b

C28_WitnessLateFrame ==
    /\ HasKey(videoRecorders, rec_1)
    /\ HasKey(session, rec_1)
    /\ Len(session[rec_1].frames) = 3
    /\ InBoth(videoRecorders[rec_1]) = {0}
    /\ videoRecorders[rec_1].blobAssemblers[0].received = 1

----------------------------------------------------------------------------
(* Lazy creation of the reassembler of an image key, under SpecImg. *)

\* the step hands the handler the frame of this header and payload
ImageFrameStep(header, payload) ==
    /\ lastKind' = "image"
    /\ epoch' = EpochAfter(header, payload)
    /\ ImageFrame(header, payload)

\* the key had no reassembler: the step leaves one of the frame's
\* TotalChunks that holds the frame's chunk and nothing else
CreatedFor(header, payload) ==
    /\ HasKey(imageAssemblers', header.CameraId)
    /\ LET a == imageAssemblers'[header.CameraId]
       IN  /\ a.total = header.TotalChunks
           /\ DOMAIN a.chunks = 0..(header.TotalChunks - 1)
           /\ a.chunks[header.ChunkIndex] = Some(payload)
           /\ MissingSlots(a) = (0..(header.TotalChunks - 1)) \ {header.ChunkIndex}
           /\ a.received = 1

\* the key had reassembler a: the step leaves a reassembler of the same
\* size that differs from a at most in the frame's slot, which takes the
\* payload if the index is in a's range and the slot was empty, or it
\* removes the reassembler because the frame filled a's last empty slot
KeptSize(a, key, index, payload) ==
    IF HasKey(imageAssemblers', key)
    THEN LET b == imageAssemblers'[key]
         IN  /\ b.total = a.total
             /\ DOMAIN b.chunks = DOMAIN a.chunks
             /\ \A i \in DOMAIN a.chunks :
                    b.chunks[i] = IF i = index /\ a.chunks[i] = NULL
                                  THEN Some(payload) ELSE a.chunks[i]
    ELSE /\ MissingSlots(a) = {index}
         /\ imageFile' # NULL
         /\ imageFile'[1].CameraId = key
         /\ imageFile'[1].bytes
                = ConcatSlots([a.chunks EXCEPT ![index] = Some(payload)], a.total)

\* the frames of a key with a chunk index, whatever TotalChunks they carry
HeadersOf(key, index) ==
    {header \in ImgHeaders : header.CameraId = key /\ header.ChunkIndex = index}

(* C29 (lazy creation): a frame of key K with a chunk index other than 0   *)
(* that comes when K has no reassembler creates one of the frame's         *)
(* TotalChunks and stores its chunk there (the index being one of the      *)
(* frame's own slots); a frame with a chunk index other than 0 that comes  *)
(* when K has a reassembler never changes the reassembler's size, whatever *)
(* TotalChunks it carries: its chunk goes into the existing reassembler or *)
(* is dropped.                                                             *)
C29_LazyCreation ==
    [][\A key \in ImageKeys, index \in 1..(MaxFrameTotal - 1), payload \in ImgPayloads :
           IF HasKey(imageAssemblers, key)
           THEN (\E header \in HeadersOf(key, index) : ImageFrameStep(header, payload))
                    => KeptSize(imageAssemblers[key], key, index, payload)
           ELSE \A header \in HeadersOf(key, index) :
                    (index < header.TotalChunks /\ ImageFrameStep(header, payload))
                        => CreatedFor(header, payload)]_vars

\* chunk 1 of 3 came for cam_01 when it had no reassembler; the reassembler
\* has three slots and holds chunk 1 only
C29_Witness ==
    /\ lastKind = "image"
    /\ HasKey(epoch, cam_01)
    /\ epoch[cam_01].total = 3
    /\ DOMAIN epoch[cam_01].got = {1}
    /\ HasKey(imageAssemblers, cam_01)
    /\ imageAssemblers[cam_01].total = 3
    /\ MissingSlots(imageAssemblers[cam_01]) = {0, 2}

\* chunks 1 and 2 came for the reassembler that chunk 1 of 3 created, and a
\* further frame with chunk index 2 and TotalChunks 2 leaves it as it is
C29_WitnessOtherTotal ==
    /\ HasKey(epoch, cam_01)
    /\ epoch[cam_01].total = 3
    /\ DOMAIN epoch[cam_01].got = {1, 2}
    /\ HasKey(imageAssemblers, cam_01)
    /\ imageAssemblers[cam_01].total = 3
    /\ MissingSlots(imageAssemblers[cam_01]) = {0}
    /\ nsteps < MaxFrames
    /\ LET after == ProcessImageChunk(ImageTransferService_createImagePacket(
                         [CameraId |-> cam_01, ChunkIndex |-> 2, TotalChunks |-> 2], <<0>>),
                     imageAssemblers).assemblers
       IN  after = imageAssemblers

----------------------------------------------------------------------------
(* Specification SpecHandlers: the ondataavailable handlers of one         *)
(* recording. The recorder fires the event of a blob every timeslice,      *)
(* whether or not the handler of the blob before has ended. A step is one  *)
(* task of the browser's event loop: a handler runs from the event or from *)
(* the resolution it awaits up to the next await that does not resolve at  *)
(* once. Blobs are measured in chunks and the buffer in packets.           *)

\* blobs the recorder hands over in the recording
MaxHandlers == 3
\* chunks of the longest blob
MaxBlobChunks == 2

HandlerIds == 1..MaxHandlers

\* the handler of a blob before its event
NewHandler == [pc |-> "new", totalChunks |-> 0, blobIndex |-> 0, chunk |-> 0]

\* after startRecording: currentBlobIndex = 0 and the start signal is in the
\* buffer of the channel
InitHandlers ==
    /\ conc = Some([currentBlobIndex |-> 0, bufferedAmount |-> 1, fired |-> 0,
                    handlers |-> [h \in HandlerIds |-> NewHandler], sent |-> <<>>])
    /\ AsmIdle /\ codec = NULL
    /\ RtIdle /\ ImgIdle /\ VidIdle /\ OutIdle /\ EnvIdle /\ VrtIdle /\ SndIdle

\* the data packet of chunk i of the blob of handler h, as
\* sendSingleVideoPacket builds its header
HandlerPacket(c, h) ==
    [blob |-> h, RecordingId |-> rec_1, BlobIndex |-> c.handlers[h].blobIndex,
     ChunkIndex |-> c.handlers[h].chunk, TotalChunks |-> c.handlers[h].totalChunks]

\* the loop of sendVideoChunked from chunk c.handlers[h].chunk on: each
\* chunk whose waitForBufferDrain finds the buffer below the threshold is
\* sent at once; the handler stays at the first chunk that has to wait, or
\* leaves the loop and runs currentBlobIndex++
RECURSIVE SendWhileLow(_, _)
SendWhileLow(c, h) ==
    IF c.handlers[h].chunk >= c.handlers[h].totalChunks
    THEN [c EXCEPT !.currentBlobIndex = @ + 1, !.handlers[h].pc = "done"]
    ELSE IF ~(c.bufferedAmount < LowThreshold)
    THEN [c EXCEPT !.handlers[h].pc = "drain"]
    ELSE SendWhileLow([c EXCEPT !.sent = Append(@, HandlerPacket(c, h)),
                                !.bufferedAmount = @ + 1,
                                !.handlers[h].chunk = @ + 1], h)

\* the call sendVideoChunked(..., this.currentBlobIndex): the argument is
\* the value of the field when the call is made
SendWithCurrentIndex(c, h) ==
    SendWhileLow([c EXCEPT !.handlers[h].blobIndex = c.currentBlobIndex], h)

\* the recorder fires ondataavailable for its next blob; an empty blob ends
\* the handler, any other leaves it at await event.data.arrayBuffer()
Handler_DataAvailable(h, totalChunks) ==
    /\ conc # NULL
    /\ h = conc[1].fired + 1
    /\ ThreadStep([conc[1] EXCEPT !.fired = h,
                                  !.handlers[h].totalChunks = totalChunks,
                                  !.handlers[h].pc = IF totalChunks = 0 THEN "done"
                                                     ELSE "arrayBuffer"])

\* arrayBuffer() resolves: sendVideoChunked is called with the blob index
\* read now
Handler_ArrayBuffer(h) ==
    /\ conc # NULL
    /\ conc[1].handlers[h].pc = "arrayBuffer"
    /\ ThreadStep(SendWithCurrentIndex(conc[1], h))

\* the timer of waitForBufferDrain finds the buffer below the threshold
Handler_Resume(h) ==
    /\ conc # NULL
    /\ conc[1].handlers[h].pc = "drain"
    /\ conc[1].bufferedAmount < LowThreshold
    /\ ThreadStep(SendWhileLow(conc[1], h))

\* the transport puts a buffered packet on the wire
Handler_Drain ==
    /\ conc # NULL
    /\ conc[1].bufferedAmount > 0
    /\ ThreadStep([conc[1] EXCEPT !.bufferedAmount = @ - 1])

NextHandlers ==
    \/ \E h \in HandlerIds, n \in 0..MaxBlobChunks : Handler_DataAvailable(h, n)
    \/ \E h \in HandlerIds : Handler_ArrayBuffer(h)
    \/ \E h \in HandlerIds : Handler_Resume(h)
    \/ Handler_Drain

SpecHandlers == InitHandlers /\ [][NextHandlers]_vars

\* the packets sent so far
SentPackets == {conc[1].sent[i] : i \in DOMAIN conc[1].sent}

(* C30 (unique blob indices under overlapping sends): within a recording   *)
(* any two packets of different recorder blobs carry different BlobIndex   *)
(* values, also when the handler of a blob starts while the handler of the *)
(* blob before is suspended and has not run currentBlobIndex++.            *)
C30_UniqueBlobIndex ==
    \A p, q \in SentPackets : p.blob # q.blob => p.BlobIndex # q.BlobIndex

\* the handler of the first blob waits for the buffer to drain after its
\* first chunk, the handler of the second blob has been called meanwhile,
\* and in the end chunks of both blobs were sent as blob 0
C30_Witness ==
    /\ conc[1].handlers[1].pc = "done"
    /\ conc[1].handlers[2].pc = "done"
    /\ conc[1].currentBlobIndex = 2
    /\ \E p, q \in SentPackets :
           /\ p.blob = 1 /\ q.blob = 2
           /\ p.BlobIndex = 0 /\ q.BlobIndex = 0

----------------------------------------------------------------------------
(* The stop signal among the frames of a recording, under SpecSenders. *)

\* the frames the video channel took, in the order of the send() calls
VideoSent == dataChannel.video.sent

(* C31 (stop is last): in the order in which the frames of a recording are *)
(* handed to the transport, no data frame comes after the stop frame.      *)
C31_StopIsLast ==
    \A i, j \in DOMAIN VideoSent :
        (i < j /\ VideoSent[i].header.Action = ActionStop)
            => VideoSent[j].header.Action # ActionData

\* the recorder stopped while the handler of its blob waited: the channel
\* took the start signal, the stop signal and then the chunk of blob 0
C31_Witness ==
    /\ videoSend.recording = "stopped"
    /\ dataChannel.video.rejected = {}
    /\ Len(VideoSent) = 3
    /\ VideoSent[1].header.Action = ActionStart
    /\ VideoSent[2].header.Action = ActionStop
    /\ VideoSent[3].header.Action = ActionData
    /\ VideoSent[3].header.BlobIndex = 0
    /\ VideoSent[3].header.RecordingId = VideoSent[2].header.RecordingId

----------------------------------------------------------------------------
(* Specification SpecTeardown: the message handler of the video channel    *)
(* and its close handler on two threads of the host. videoRecorders is a   *)
(* ConcurrentDictionary: each of its operations is one step, and Values    *)
(* returns a snapshot. A recorder object is a position in the heap; it     *)
(* records which handlers called Finalize on it.                           *)

\* messages the handler is given on one connection
MaxMessages == 3

TeardownActions == {ActionStart, ActionData, ActionStop}

\* new VideoRecorder(...): whether it has a complete blob and whether its
\* Finalize throws (a camera id under 8 characters, once a blob is complete)
RecorderObject(id, shortCameraId) ==
    [id |-> id, shortCameraId |-> shortCameraId, hasBlobs |-> FALSE, finalizedBy |-> <<>>]

InitTeardown ==
    /\ conc = Some([heap |-> <<>>, table |-> EmptyMap, messages |-> 0,
                    message |-> [pc |-> "idle", action |-> ActionStart, id |-> rec_1,
                                 shortCameraId |-> FALSE, removed |-> 0],
                    close |-> [pc |-> "idle", values |-> <<>>]])
    /\ AsmIdle /\ codec = NULL
    /\ RtIdle /\ ImgIdle /\ VidIdle /\ OutIdle /\ EnvIdle /\ VrtIdle /\ SndIdle

\* recorder.Finalize(path) called by a handler; whether it throws
FinalizeCalled(c, ref, handler) == [c EXCEPT !.heap[ref].finalizedBy = Append(@, handler)]

FinalizeThrows(c, ref) == c.heap[ref].hasBlobs /\ c.heap[ref].shortCameraId

\* the values of the dictionary, in the order of their keys
RECURSIVE ValuesOf(_, _)
ValuesOf(table, keys) ==
    IF keys = <<>> THEN <<>>
    ELSE (IF HasKey(table, Head(keys)) THEN <<table[Head(keys)]>> ELSE <<>>)
             \o ValuesOf(table, Tail(keys))

\* onmessage is raised with a frame while the channel is open; the header
\* is parsed
Message_Received(action, id, shortCameraId) ==
    /\ conc # NULL
    /\ conc[1].message.pc = "idle"
    /\ conc[1].close.pc = "idle"
    /\ conc[1].messages < MaxMessages
    /\ ThreadStep([conc[1] EXCEPT !.messages = @ + 1,
                                  !.message = [pc |-> "switch", action |-> action, id |-> id,
                                               shortCameraId |-> shortCameraId,
                                               removed |-> 0]])

\* case "start": recorders[header.RecordingId] = new VideoRecorder(...)
Message_Start ==
    /\ conc # NULL
    /\ conc[1].message.pc = "switch"
    /\ conc[1].message.action = ActionStart
    /\ ThreadStep([conc[1] EXCEPT
           !.heap = Append(@, RecorderObject(conc[1].message.id,
                                             conc[1].message.shortCameraId)),
           !.table = Put(@, conc[1].message.id, Len(conc[1].heap) + 1),
           !.message.pc = "idle"])

\* case "data": TryGetValue and AddChunk, which completes a blob
Message_Data ==
    /\ conc # NULL
    /\ conc[1].message.pc = "switch"
    /\ conc[1].message.action = ActionData
    /\ ThreadStep(IF HasKey(conc[1].table, conc[1].message.id)
                  THEN [conc[1] EXCEPT
                           !.heap[conc[1].table[conc[1].message.id]].hasBlobs = TRUE,
                           !.message.pc = "idle"]
                  ELSE [conc[1] EXCEPT !.message.pc = "idle"])

\* case "stop": recorders.TryRemove(header.RecordingId, out finishedRecorder)
Message_StopTryRemove ==
    /\ conc # NULL
    /\ conc[1].message.pc = "switch"
    /\ conc[1].message.action = ActionStop
    /\ ThreadStep(IF HasKey(conc[1].table, conc[1].message.id)
                  THEN [conc[1] EXCEPT
                           !.table = Remove(@, conc[1].message.id),
                           !.message.removed = conc[1].table[conc[1].message.id],
                           !.message.pc = "finalize"]
                  ELSE [conc[1] EXCEPT !.message.pc = "idle"])

\* case "stop": finishedRecorder.Finalize(...); an exception is caught
Message_StopFinalize ==
    /\ conc # NULL
    /\ conc[1].message.pc = "finalize"
    /\ ThreadStep([FinalizeCalled(conc[1], conc[1].message.removed, "stop")
                      EXCEPT !.message.pc = "idle"])

\* onclose: foreach (var recorder in videoRecorders.Values)
Close_Values ==
    /\ conc # NULL
    /\ conc[1].close.pc = "idle"
    /\ ThreadStep([conc[1] EXCEPT
           !.close = [pc |-> "foreach",
                      values |-> ValuesOf(conc[1].table, <<rec_1, rec_2>>)]])

\* onclose: recorder.Finalize(...) for the next value; an exception ends
\* the handler
Close_Finalize ==
    /\ conc # NULL
    /\ conc[1].close.pc = "foreach"
    /\ conc[1].close.values # <<>>
    /\ ThreadStep([FinalizeCalled(conc[1], Head(conc[1].close.values), "close") EXCEPT
           !.close = IF FinalizeThrows(conc[1], Head(conc[1].close.values))
                     THEN [pc |-> "thrown", values |-> <<>>]
                     ELSE [pc |-> "foreach", values |-> Tail(conc[1].close.values)]])

\* onclose: videoRecorders.Clear()
Close_Clear ==
    /\ conc # NULL
    /\ conc[1].close.pc = "foreach"
    /\ conc[1].close.values = <<>>
    /\ ThreadStep([conc[1] EXCEPT !.table = EmptyMap, !.close.pc = "done"])

NextTeardown ==
    \/ \E action \in TeardownActions, id \in {rec_1, rec_2}, shortCameraId \in BOOLEAN :
           Message_Received(action, id, shortCameraId)
    \/ Message_Start
    \/ Message_Data
    \/ Message_StopTryRemove
    \/ Message_StopFinalize
    \/ Close_Values
    \/ Close_Finalize
    \/ Close_Clear

SpecTeardown == InitTeardown /\ [][NextTeardown]_vars

(* C32 (finalize at most once): Finalize is called at most once on every   *)
(* recorder object, under every interleaving of the message handler with   *)
(* the close handler.                                                      *)
C32_FinalizeAtMostOnce ==
    \A ref \in DOMAIN conc[1].heap : Len(conc[1].heap[ref].finalizedBy) <= 1

\* the close handler took its snapshot of Values while the stop of rec_1
\* was being handled: both handlers have called Finalize on the recorder
C32_Witness ==
    /\ conc[1].message.pc = "idle"
    /\ conc[1].message.action = ActionStop
    /\ conc[1].close.pc = "done"
    /\ \E ref \in DOMAIN conc[1].heap :
           /\ conc[1].heap[ref].id = rec_1
           /\ conc[1].heap[ref].finalizedBy = <<"stop", "close">>

----------------------------------------------------------------------------
(* Sessions that leave the table of live sessions, under SpecRecv. *)

\* the step wrote the completed blobs of a recorder, in blob order, into a
\* file; a recorder without a complete blob has nothing to write, and
\* Finalize cannot name the file of a camera id under 8 characters
BlobsEmitted(rec) ==
    (DOMAIN rec.blobs # {} /\ Len(rec.cameraId) >= 8)
        => \E k \in 1..Len(videoFiles') : videoFiles'[k].bytes = ConcatBlobs(rec.blobs)

\* the step hands the handler a start frame for a recording that is live
ReplacedByStart(id) == HasKey(videoRecorders, id) /\ VideoFrameOf({ActionStart}, id)

\* the recorder of the recording is no longer the one in the table
LeavesTable(id) ==
    HasKey(videoRecorders, id) /\ (~HasKey(videoRecorders', id) \/ ReplacedByStart(id))

C33_WitnessStop ==
    /\ lastKind = "video"
    /\ ~HasKey(videoRecorders, rec_1)
    /\ HasKey(session, rec_1)
    /\ session[rec_1].ended = "stop"
    /\ Len(session[rec_1].frames) = 2
    /\ Len(videoFiles) = 1
    /\ Len(videoFiles[1].bytes) = 2

----------------------------------------------------------------------------
(* Completed blobs under later data frames, under SpecRecv. *)

(* C34 (completed blobs are immutable): once blob b of a running recording *)
(* is in the completed-blob map, a data frame of that recording leaves the *)
(* bytes stored for b as they are and leaves b without an in-progress      *)
(* reassembler.                                                            *)
C34_CompletedBlobsImmutable ==
    [][\A id \in RecordingIds :
           (DataFrameStep(id) /\ HasKey(videoRecorders', id)) =>
               \A b \in DOMAIN videoRecorders[id].blobs :
                   /\ HasKey(videoRecorders'[id].blobs, b)
                   /\ videoRecorders'[id].blobs[b] = videoRecorders[id].blobs[b]
                   /\ ~HasKey(videoRecorders'[id].blobAssemblers, b)]_vars

\* the one-chunk blob 1 of rec_2 came twice with different payloads: the
\* completed-blob map holds the bytes of the second frame
C34_Witness ==
    /\ HasKey(videoRecorders, rec_2)
    /\ HasKey(session, rec_2)
    /\ session[rec_2].ended = "no"
    /\ Len(session[rec_2].frames) = 2
    /\ session[rec_2].frames[1].header = session[rec_2].frames[2].header
    /\ session[rec_2].frames[1].payload # session[rec_2].frames[2].payload
    /\ DOMAIN videoRecorders[rec_2].blobs = {1}
    /\ videoRecorders[rec_2].blobs[1] = session[rec_2].frames[2].payload
    /\ DOMAIN videoRecorders[rec_2].blobAssemblers = {}

----------------------------------------------------------------------------
(* Emission and the chunk of the emitting frame, under SpecImg. *)

\* the reassembler AddChunk is called on for a frame: a new one of the
\* frame's TotalChunks on chunk 0 or without an entry, else the entry
AssemblerInUse(header) ==
    IF header.ChunkIndex = 0 \/ ~HasKey(imageAssemblers, header.CameraId)
    THEN ImageAssembler(header.TotalChunks)
    ELSE imageAssemblers[header.CameraId]

\* AddChunk stores the frame's chunk: the index is in range and the slot
\* is empty
ChunkStored(header) ==
    /\ header.ChunkIndex \in 0..(AssemblerInUse(header).total - 1)
    /\ AssemblerInUse(header).chunks[header.ChunkIndex] = NULL

(* C35 (emission requires a stored chunk): a frame makes ProcessImageChunk *)
(* write an image only if the frame's chunk was stored in a slot, and      *)
(* every image written has at least one chunk; a frame whose chunk is      *)
(* dropped as out of range, any frame with TotalChunks 0 among them,       *)
(* writes nothing.                                                         *)
C35_EmissionStoresChunk ==
    [][imageFile' # NULL =>
           \A header \in ImgHeaders, payload \in ImgPayloads :
               ImageFrameStep(header, payload) => ChunkStored(header)]_vars

\* a frame of cam_01 with TotalChunks 0 came: an image of no bytes was
\* written and the key has no entry
C35_Witness ==
    /\ lastKind = "image"
    /\ imageFile # NULL
    /\ imageFile[1].CameraId = cam_01
    /\ imageFile[1].bytes = <<>>
    /\ HasKey(epoch, cam_01)
    /\ epoch[cam_01].total = 0
    /\ ~HasKey(imageAssemblers, cam_01)

----------------------------------------------------------------------------
(* Specification SpecE2E: ImageTransferService.sendImages on an open       *)
(* channel that loses, reorders and repeats nothing, whose send() never    *)
(* throws, with ProcessImageChunk at the other end. srcBytes holds the     *)
(* images sendImages is called with, order the packets delivered so far.   *)

InitE2E ==
    /\ dataChannel = [image |-> OpenChannel, video |-> OpenChannel]
    /\ imageSend = ImageSendIdle
    /\ videoSend = VideoSendIdle
    /\ chunkSize \in 1..MaxChunk
    /\ srcBytes \in SendableImages
    /\ todo = {} /\ order = <<>> /\ savedImages = <<>>
    /\ UnitIdle /\ ImgIdle /\ VidIdle /\ OutIdle /\ EnvIdle /\ VrtIdle

\* the call sendImages(images), once
E2E_sendImages == imageSend.pc = "idle" /\ sendImages(srcBytes)

\* the transport delivers the next packet that has left the sender's
\* buffer: onmessage of the image channel
E2E_Deliver ==
    /\ Len(order) < Len(dataChannel.image.sent) - dataChannel.image.bufferedAmount
    /\ ImageMessage(dataChannel.image.sent[Len(order) + 1].bytes)
    /\ order' = Append(order, Len(order) + 1)
    /\ savedImages' = savedImages \o imageFile'
    /\ UNCHANGED <<unitVars, srcBytes, chunkSize, todo, envVars, vrtVars, sndVars>>

NextE2E ==
    \/ E2E_sendImages
    \/ ImagePump(TRUE)
    \/ Drain("image")
    \/ E2E_Deliver

SpecE2E == InitE2E /\ [][NextE2E]_vars

\* the files the receiver is to write for the images, in send order
ExpectedImages(images) ==
    [k \in 1..Len(images) |-> [CameraId |-> images[k].cameraId,
                               bytes |-> images[k].imageData]]

IsPrefix(s, t) == Len(s) <= Len(t) /\ s = SubSeq(t, 1, Len(s))

\* sendImages has returned and every packet it sent has been delivered
E2E_Done ==
    /\ imageSend.pc = "resolved"
    /\ dataChannel.image.bufferedAmount = 0
    /\ Len(order) = Len(dataChannel.image.sent)

\* an image that has a chunk and whose header fits the header region
Transferable(image) ==
    /\ Len(image.imageData) > 0
    /\ Len(StringifyChunkHeader(ImageHeaderOf(image, 0, chunkSize))) <= ImageHeaderSize

(* C36 (end-to-end exactly-once for images): the images the receiver has   *)
(* written are, in send order, the images sendImages was called with, each *)
(* with the bytes sent; once the call has returned and every packet has    *)
(* been delivered, there is one file per image and the reassembler map is  *)
(* empty.                                                                  *)
C36_ExactlyOnce ==
    /\ IsPrefix(savedImages, ExpectedImages(srcBytes))
    /\ E2E_Done => /\ savedImages = ExpectedImages(srcBytes)
                   /\ imageAssemblers = EmptyMap

\* C36 for calls whose images all have a chunk and a header that fits
C36_ExactlyOnce_Transferable ==
    (\A k \in 1..Len(srcBytes) : Transferable(srcBytes[k])) => C36_ExactlyOnce

\* sendImages returned after the one-byte image of camera_front_left_01,
\* its packet was delivered, and the receiver wrote nothing
C36_Witness ==
    /\ E2E_Done
    /\ Len(srcBytes) = 1
    /\ srcBytes[1].cameraId = camera_front_left_01
    /\ Len(srcBytes[1].imageData) = 1
    /\ Len(dataChannel.image.sent) = 1
    /\ savedImages = <<>>

\* two images of cam_01, the first of two chunks, were sent and delivered:
\* the receiver wrote both, in send order
C36_WitnessSameKey ==
    /\ E2E_Done
    /\ Len(srcBytes) = 2
    /\ \A k \in 1..2 : srcBytes[k].cameraId = cam_01 /\ Len(srcBytes[k].imageData) = 2
    /\ chunkSize = 1
    /\ savedImages = ExpectedImages(srcBytes)

----------------------------------------------------------------------------
(* Specification SpecLive: a call of sendImages of either service, or a    *)
(* recording of either service, on an open channel whose send() never      *)
(* throws. The transport goes on putting buffered packets on the wire, and *)
(* the event loop runs a sender whose wait has ended: the timer of the     *)
(* backpressure poll fires again until the buffer is below the mark.       *)

\* what sendImages is called with: up to MaxImages images of one camera
\* and one length
LiveImages ==
    {images \in SendableImages : \A k \in 1..Len(images) : images[k] = images[1]}

InitLive ==
    /\ dataChannel = [image |-> OpenChannel, video |-> OpenChannel]
    /\ imageSend = ImageSendIdle
    /\ videoSend = VideoSendIdle
    /\ chunkSize \in 1..MaxChunk
    /\ srcBytes \in LiveImages
    /\ todo = {} /\ order = <<>> /\ savedImages = <<>>
    /\ UnitIdle /\ ImgIdle /\ VidIdle /\ OutIdle /\ EnvIdle /\ VrtIdle

NextLive ==
    \/ E2E_sendImages
    \/ WebRtcService_sendImages(srcBytes)
    \/ ImagePump(TRUE)
    \/ WebRtcService_ImagePump(TRUE)
    \/ \E cameraId \in VideoDeviceIds : startRecording(cameraId, TRUE)
    \/ \E cameraId \in VideoDeviceIds : WebRtcService_startRecording(cameraId, TRUE)
    \/ \E n \in 1..MaxSendLen : ondataavailable(LabelledBlob(videoSend.currentBlobIndex, n))
    \/ \E n \in 1..MaxSendLen :
           WebRtcService_ondataavailable(LabelledBlob(videoSend.currentBlobIndex, n))
    \/ VideoPump(TRUE)
    \/ WebRtcService_VideoPump(TRUE)
    \/ \E kind \in ChannelKinds : Drain(kind)

LiveFairness ==
    /\ \A kind \in ChannelKinds : WF_vars(Drain(kind))
    /\ WF_vars(ImagePump(TRUE))
    /\ WF_vars(WebRtcService_ImagePump(TRUE))
    /\ WF_vars(VideoPump(TRUE))
    /\ WF_vars(WebRtcService_VideoPump(TRUE))

SpecLive == InitLive /\ [][NextLive]_vars /\ LiveFairness

\* the frames sendChunkedImage sends for the images of a call
RECURSIVE TotalFrames(_, _)
TotalFrames(images, size) ==
    IF images = <<>> THEN 0
    ELSE TotalChunksOf(Len(Head(images).imageData), size) + TotalFrames(Tail(images), size)

\* the call of sendImages has returned after all frames of all its images
ImagesSent ==
    /\ imageSend.pc = "resolved"
    /\ ~imageSend.isSending
    /\ Len(dataChannel.image.sent) = TotalFrames(srcBytes, chunkSize)

\* no packet of the call fails to be built: createImagePacket of
\* WebRtcService throws for a header that does not fit
PacketsBuilt ==
    imageSend.service = "WebRtcService"
        => \A k \in 1..Len(srcBytes) :
               ~WebRtcService_createImagePacket_Throws(ImageHeaderOf(srcBytes[k], 0, chunkSize))

\* a sender is suspended in the backpressure wait of its channel
Suspended(kind) == IF kind = "image" THEN imageSend.pc = "waiting" ELSE videoSend.pc = "waiting"

\* the wait of the service that uses the channel has ended
WaitOver(kind) ==
    IF ServiceOf(kind) = "WebRtcService"
    THEN IF kind = "image"
         THEN WebRtcService_waitForImageBufferDrain_Resolves(dataChannel.image)
         ELSE WebRtcService_waitForVideoBufferDrain_Resolves(dataChannel.video)
    ELSE waitForBufferDrain_Resolves(dataChannel[kind])

\* the sender of the channel can go on
CanGoOn(kind) ==
    IF kind = "image"
    THEN ENABLED (ImagePump(TRUE) \/ WebRtcService_ImagePump(TRUE))
    ELSE ENABLED (VideoPump(TRUE) \/ WebRtcService_VideoPump(TRUE))

(* C37 (send terminates under drain fairness): when the transport goes on  *)
(* draining its buffer and no send fails, a call of sendImages that has    *)
(* begun sending comes to return with every frame of every image sent, and *)
(* the handler of a recorder blob that has begun sending comes to its end; *)
(* a suspended sender whose buffer is below the high-water mark can go on: *)
(* it is blocked by the backpressure wait only.                            *)
C37_SendTerminates ==
    /\ [](\A kind \in ChannelKinds : (Suspended(kind) /\ WaitOver(kind)) => CanGoOn(kind))
    /\ (imageSend.pc = "waiting" /\ PacketsBuilt) ~> ImagesSent
    /\ (videoSend.pc = "waiting") ~> (videoSend.pc = "idle")

\* sendImages of ImageTransferService returned after two images of two
\* chunks each: more frames than the buffer takes below the mark
C37_Witness ==
    /\ imageSend.service = "ImageTransferService"
    /\ ImagesSent
    /\ Len(srcBytes) = 2
    /\ Len(dataChannel.image.sent) = 4
    /\ Len(dataChannel.image.sent) > LowThreshold

(***************************************************************************)
(* Connection lifecycle of the sender: WebRtcService.connect / disconnect, *)
(* the handlers of the data channels, of the peer connection and of the    *)
(* signaling socket, and CameraManagerComponent.toggleConnection.          *)
(***************************************************************************)

\* toggleConnection is invoked at most MaxToggles times
MaxToggles == 3

ConnectionStates == {"disconnected", "connecting", "connected", "failed", "closed"}

\* the states in which the button of the component reads "Connect"
OffersConnect == {"disconnected", "failed", "closed"}

ChannelTypes == {"image", "video"}

\* RTCPeerConnection.connectionState: the changes that raise
\* onconnectionstatechange (close() by the script raises no event)
PeerTransitions ==
    {<<"new", "connecting">>, <<"connecting", "connected">>, <<"connecting", "failed">>,
     <<"connected", "disconnected">>, <<"disconnected", "connected">>,
     <<"disconnected", "failed">>}

\* the service after construction: no objects, connectionState 'disconnected'
NewService ==
    [connectionState |-> "disconnected", peerConnection |-> 0, pcState |-> "none",
     channel |-> [type \in ChannelTypes |-> "none"], webSocket |-> "none",
     connect |-> "idle", signalled |-> FALSE, isRecording |-> FALSE,
     isVideoChannelOpen |-> FALSE, created |-> 0, toggles |-> 0, toast |-> "none"]

InitConn ==
    /\ conc = Some(NewService)
    /\ AsmIdle /\ codec = NULL
    /\ RtIdle /\ ImgIdle /\ VidIdle /\ OutIdle /\ EnvIdle /\ VrtIdle /\ SndIdle

\* disconnect(): closes and forgets the channels, the peer connection and
\* the socket; connectionState 'disconnected'
disconnect(c) ==
    [c EXCEPT !.channel = [type \in ChannelTypes |-> "none"], !.peerConnection = 0,
              !.pcState = "none", !.webSocket = "none", !.signalled = FALSE,
              !.connectionState = "disconnected", !.isRecording = FALSE,
              !.isVideoChannelOpen = FALSE]

\* connect() as far as its first await: returns at once unless the state is
\* 'disconnected'; otherwise 'connecting', a new RTCPeerConnection with its
\* two data channels, and the signaling socket is being opened
connect(c) ==
    IF c.connectionState # "disconnected"
    THEN c
    ELSE [c EXCEPT !.connectionState = "connecting", !.peerConnection = c.created + 1,
                   !.created = @ + 1, !.pcState = "new",
                   !.channel = [type \in ChannelTypes |-> "connecting"],
                   !.webSocket = "connecting", !.signalled = FALSE,
                   !.connect = "awaitSocket"]

\* toggleConnection(): the button is disabled while 'connecting'; in
\* 'connected' it disconnects, otherwise it awaits connect() and shows the
\* toast 'Connected!' when connect() returns
toggleConnection ==
    /\ conc # NULL
    /\ conc[1].toggles < MaxToggles
    /\ conc[1].connectionState # "connecting"
    /\ LET c == [conc[1] EXCEPT !.toggles = @ + 1]
       IN  IF c.connectionState = "connected"
           THEN ThreadStep([disconnect(c) EXCEPT !.toast = "info"])
           ELSE LET after == connect(c)
                IN  ThreadStep(IF after.connect = "idle"
                               THEN [after EXCEPT !.toast = "success"]
                               ELSE after)

\* webSocket.onopen resolves connectToSignalingServer; connect() goes on
\* with createOffer, setLocalDescription and the offer message, and returns,
\* or one of them rejects: catch, connectionState 'failed', rethrown
WebSocket_onopen(offerOk) ==
    /\ conc # NULL
    /\ conc[1].connect = "awaitSocket"
    /\ conc[1].webSocket = "connecting"
    /\ ThreadStep(IF offerOk
                  THEN [conc[1] EXCEPT !.webSocket = "open", !.signalled = TRUE,
                                       !.connect = "idle", !.toast = "success"]
                  ELSE [conc[1] EXCEPT !.webSocket = "open", !.connectionState = "failed",
                                       !.connect = "idle", !.toast = "error"])

\* webSocket.onerror rejects connectToSignalingServer: catch,
\* connectionState 'failed', rethrown; the peer connection is kept
WebSocket_onerror ==
    /\ conc # NULL
    /\ conc[1].connect = "awaitSocket"
    /\ conc[1].webSocket = "connecting"
    /\ ThreadStep([conc[1] EXCEPT !.webSocket = "closed", !.connectionState = "failed",
                                  !.connect = "idle", !.toast = "error"])

\* webSocket.onclose: logged only
WebSocket_onclose ==
    /\ conc # NULL
    /\ conc[1].webSocket = "open"
    /\ ThreadStep([conc[1] EXCEPT !.webSocket = "closed"])

\* peerConnection.onconnectionstatechange: 'disconnected' and 'closed' set
\* 'closed', 'failed' sets 'failed', anything else changes nothing
onconnectionstatechange(from, to) ==
    /\ conc # NULL
    /\ conc[1].signalled
    /\ conc[1].pcState = from
    /\ <<from, to>> \in PeerTransitions
    /\ ThreadStep([conc[1] EXCEPT !.pcState = to,
                                  !.connectionState = IF to \in {"disconnected", "closed"}
                                                      THEN "closed"
                                                      ELSE IF to = "failed" THEN "failed"
                                                      ELSE @])

\* channel.onopen: the image channel sets 'connected', the video channel
\* sets isVideoChannelOpen
Channel_onopen(type) ==
    /\ conc # NULL
    /\ conc[1].pcState = "connected"
    /\ conc[1].channel[type] = "connecting"
    /\ ThreadStep([conc[1] EXCEPT !.channel[type] = "open",
                                  !.connectionState = IF type = "image" THEN "connected" ELSE @,
                                  !.isVideoChannelOpen = IF type = "video" THEN TRUE ELSE @])

\* channel.onclose: the image channel sets 'closed' if the state is
\* 'connected', the video channel clears isVideoChannelOpen
Channel_onclose(type) ==
    /\ conc # NULL
    /\ conc[1].channel[type] \in {"open", "closing"}
    /\ ThreadStep([conc[1] EXCEPT !.channel[type] = "closed",
                                  !.connectionState = IF type = "image" /\ @ = "connected"
                                                      THEN "closed" ELSE @,
                                  !.isVideoChannelOpen = IF type = "video" THEN FALSE ELSE @])

\* channel.onerror: the image channel sets 'failed'; the channel closes
Channel_onerror(type) ==
    /\ conc # NULL
    /\ conc[1].channel[type] = "open"
    /\ ThreadStep([conc[1] EXCEPT !.channel[type] = "closing",
                                  !.connectionState = IF type = "image" THEN "failed" ELSE @])

\* a recording starts: offered while connected with the video channel open
Conn_startRecording ==
    /\ conc # NULL
    /\ conc[1].connectionState = "connected"
    /\ conc[1].isVideoChannelOpen
    /\ ~conc[1].isRecording
    /\ ThreadStep([conc[1] EXCEPT !.isRecording = TRUE])

NextConn ==
    \/ toggleConnection
    \/ \E offerOk \in BOOLEAN : WebSocket_onopen(offerOk)
    \/ WebSocket_onerror
    \/ WebSocket_onclose
    \/ \E from, to \in {t[1] : t \in PeerTransitions} \cup {t[2] : t \in PeerTransitions} :
           onconnectionstatechange(from, to)
    \/ \E type \in ChannelTypes : Channel_onopen(type)
    \/ \E type \in ChannelTypes : Channel_onclose(type)
    \/ \E type \in ChannelTypes : Channel_onerror(type)
    \/ Conn_startRecording

SpecConn == InitConn /\ [][NextConn]_vars

\* a step in which toggleConnection is invoked
ToggleStep == conc # NULL /\ conc' # NULL /\ conc'[1].toggles = conc[1].toggles + 1

(* C38 (reconnect always possible): whenever the connection state is       *)
(* 'disconnected', 'failed' or 'closed', the states in which the button    *)
(* offers Connect, invoking toggleConnection starts a new attempt: the     *)
(* state becomes 'connecting' and a new peer connection with its data      *)
(* channels is created.                                                    *)
C38_ConnectStartsAttempt ==
    [][(ToggleStep /\ conc[1].connectionState \in OffersConnect)
           => /\ conc'[1].connectionState = "connecting"
              /\ conc'[1].created = conc[1].created + 1
              /\ conc'[1].peerConnection = conc'[1].created
              /\ \A type \in ChannelTypes : conc'[1].channel[type] = "connecting"]_vars

\* the service is in 'failed' or 'closed' with no call of connect() pending
Stranded ==
    /\ conc # NULL
    /\ conc[1].connectionState \in {"failed", "closed"}
    /\ conc[1].connect = "idle"

\* in 'failed' and 'closed' no step creates a peer connection or reaches
\* 'connecting' or 'disconnected': toggleConnection calls connect(), which
\* returns at its guard, and nothing calls disconnect()
C38_NoNewAttemptOnceStranded ==
    [][Stranded => /\ conc'[1].created = conc[1].created
                   /\ conc'[1].connectionState \notin {"connecting", "disconnected"}]_vars

\* after a failed signaling socket nothing is left that could raise an
\* event: the state stays 'failed' for ever
C38_FailedSocketIsFinal ==
    [][(Stranded /\ ~conc[1].signalled /\ conc[1].webSocket = "closed")
           => conc'[1].connectionState = "failed"]_vars

\* the signaling socket failed, the state is 'failed', the button offered
\* Connect and was pressed: 'Connected!' is shown, the state is 'failed'
\* still and the one peer connection is the one of the failed attempt
C38_Witness ==
    /\ conc # NULL
    /\ conc[1].connectionState = "failed"
    /\ conc[1].webSocket = "closed"
    /\ conc[1].toggles = 2
    /\ conc[1].created = 1
    /\ conc[1].toast = "success"

\* the same after the image channel was closed by the peer: 'closed'
C38_WitnessClosed ==
    /\ conc # NULL
    /\ conc[1].connectionState = "closed"
    /\ conc[1].channel["image"] = "closed"
    /\ conc[1].toggles = 2
    /\ conc[1].created = 1
    /\ conc[1].toast = "success"

(***************************************************************************)
(* Calls of sendImages one after the other on one service, the image       *)
(* channel closing at any moment: the signals isSending and sendProgress   *)
(* keep their values from one call to the next.                            *)
(***************************************************************************)

\* sendImages is called at most MaxCalls times
MaxCalls == 2

ImageServices == {"ImageTransferService", "WebRtcService"}

\* a guard that lets every call through
sendImages_NeverThrowsAtOnce(channel) == FALSE

\* if (!dataChannel || dataChannel.readyState !== 'open') throw
sendImages_ThrowsAtOnce(channel) == channel.readyState # "open"

\* the message of the error thrown by the guard
NotOpenError(service) ==
    IF service = "ImageTransferService"
    THEN "Image data channel not available"
    ELSE "Image data channel is not open"

\* sendImages(images) of a service whose signals are those of send, up to
\* its first await: the guard throws before any signal is set; otherwise
\* isSending.set(true), sendProgress.set(0) and the loop
sendImages_Call(service, send, images, channel, size) ==
    IF sendImages_ThrowsAtOnce(channel)
    THEN [send EXCEPT !.service = service, !.pc = "rejected", !.total = Len(images),
                      !.images = <<>>, !.chunk = 0, !.error = NotOpenError(service)]
    ELSE IF service = "ImageTransferService"
    THEN ImageSendOf([ImageSendIdle EXCEPT !.service = service, !.total = Len(images)],
                     SkipEmptyImages(images, size))
    ELSE WebRtcService_ImageSendAt([ImageSendIdle EXCEPT !.service = service,
                                                         !.total = Len(images)],
                                   SkipEmptyImages(images, size), 0, size)

InitCalls ==
    /\ dataChannel = [image |-> OpenChannel, video |-> OpenChannel]
    /\ imageSend \in {[ImageSendIdle EXCEPT !.service = service] : service \in ImageServices}
    /\ videoSend = VideoSendIdle
    /\ chunkSize \in 1..MaxChunk
    /\ srcBytes \in LiveImages
    /\ todo = {} /\ order = <<>> /\ savedImages = <<>>
    /\ AsmIdle /\ codec = NULL
    /\ conc = Some([calls |-> 0])
    /\ ImgIdle /\ VidIdle /\ OutIdle /\ EnvIdle /\ VrtIdle

\* the component calls sendImages of its service with its captured images
\* while no call is going on (canCapture: !isSending())
Call_sendImages ==
    /\ conc # NULL
    /\ conc[1].calls < MaxCalls
    /\ imageSend.pc # "waiting"
    /\ conc' = Some([calls |-> conc[1].calls + 1])
    /\ imageSend' = sendImages_Call(imageSend.service, imageSend, srcBytes, dataChannel.image,
                                    chunkSize)
    /\ UNCHANGED <<dataChannel, videoSend>>
    /\ UNCHANGED <<asmKind, asm, recent, threw, codec, rtVars, imgVars, vidVars, outVars,
                   envVars, vrtVars>>

NextCalls ==
    \/ Call_sendImages
    \/ \E accepted \in BOOLEAN : ImagePump(accepted)
    \/ \E accepted \in BOOLEAN : WebRtcService_ImagePump(accepted)
    \/ Drain("image")
    \/ ChannelCloses("image")

SpecCalls == InitCalls /\ [][NextCalls]_vars

\* a step in which sendImages is called
CallStep == conc # NULL /\ conc' # NULL /\ conc'[1].calls = conc[1].calls + 1

C39_WitnessTransmitError ==
    /\ conc # NULL
    /\ imageSend.pc = "rejected"
    /\ imageSend.error \notin {"none", NotOpenError(imageSend.service)}
    /\ imageSend.sendProgress = 50
    /\ ~imageSend.isSending

====
